---- MODULE Spec2Model ----
(***************************************************************************)
(* Model of the two numerical subsystems of site_surveyor:                 *)
(*   - analysis/ap_locator.py : APLocator (multilateration of emitters)    *)
(*   - analysis/heatmap.py    : HeatmapGenerator (spatial interpolation)   *)
(*                                                                         *)
(* Fixed-point conventions (the code uses IEEE doubles):                   *)
(*   distances in metres       : integers in units of 1/1000 m   (DistUnit)*)
(*   confidence and its factors: integers in units of 1/10000    (ConfUnit)*)
(*   heatmap metric values     : integers in units of 1/100     (ValUnit)  *)
(*   raster coordinates        : integers (pixels)                         *)
(***************************************************************************)
EXTENDS Integers, Sequences, FiniteSets, TLC

VARIABLES
    \* --- SignalDistanceModel exercised on its own (SpecDist)
    d_pc, d_s1, d_s2, d_out1, d_out2,
    \* --- APLocator.estimate_all_aps (Spec)
    survey_points, pixels_per_meter, loc_pc, pt_idx, ap_measurements,
    ap_idx, cur, estimated_aps, outcome, random_state,
    \* --- HeatmapGenerator.generate (SpecHeat)
    h_points, h_metric, h_target, h_width, h_height, h_pc, h_samples,
    h_range, h_grid, h_rgba, h_trace, h_image, h_raised

dist_vars == <<d_pc, d_s1, d_s2, d_out1, d_out2>>
loc_vars  == <<survey_points, pixels_per_meter, loc_pc, pt_idx, ap_measurements,
               ap_idx, cur, estimated_aps, outcome, random_state>>
heat_vars == <<h_points, h_metric, h_target, h_width, h_height, h_pc, h_samples,
               h_range, h_grid, h_rgba, h_trace, h_image, h_raised>>
vars == <<dist_vars, loc_vars, heat_vars>>

(***************************************************************************)
(* Generic helpers                                                         *)
(***************************************************************************)
Min2(a, b) == IF a <= b THEN a ELSE b
Max2(a, b) == IF a >= b THEN a ELSE b
Abs(a) == IF a >= 0 THEN a ELSE -a

RECURSIVE SeqSum(_)
SeqSum(s) == IF s = <<>> THEN 0 ELSE Head(s) + SeqSum(Tail(s))

RECURSIVE SeqMin(_)
SeqMin(s) == IF Len(s) = 1 THEN s[1] ELSE Min2(Head(s), SeqMin(Tail(s)))

RECURSIVE SeqMax(_)
SeqMax(s) == IF Len(s) = 1 THEN s[1] ELSE Max2(Head(s), SeqMax(Tail(s)))

RECURSIVE Pow10(_)
Pow10(k) == IF k = 0 THEN 1 ELSE 10 * Pow10(k - 1)

RECURSIVE SqrtSearch(_, _, _)
SqrtSearch(n, lo, hi) ==
    IF lo >= hi THEN lo
    ELSE LET mid == (lo + hi + 1) \div 2
         IN IF mid * mid <= n THEN SqrtSearch(n, mid, hi)
                              ELSE SqrtSearch(n, lo, mid - 1)

\* floor(sqrt(n)) for 0 <= n < 2^31
ISqrt(n) == SqrtSearch(n, 0, Min2(n, 46340))

(***************************************************************************)
(* core/data_models.py: NetworkData clamps signal into [-120, -10]         *)
(***************************************************************************)
SignalMin == -120
SignalMax == -10
SignalRange == SignalMin..SignalMax

(***************************************************************************)
(* APLocator.__init__ : model parameters                                   *)
(***************************************************************************)
\* one metre, in the fixed-point unit of distances (1/1000 m)
DistUnit == Pow10(3)
reference_rssi == -40
\* reference_distance = 1.0 m
reference_distance == 1 * DistUnit
\* path_loss_exponent = 2.5, so 10 * n = 25
ten_times_exponent == 25
\* clamp limits of _rssi_to_distance_meters: 0.5 m and 150.0 m
min_distance == DistUnit \div 2
max_distance_m == 150 * DistUnit

\* 10^(j/25) for j = 0..24, rounded to 1/1000
Root25Table ==
    <<1000, 1096, 1202, 1318, 1445, 1585, 1738, 1905, 2089, 2291,
      2512, 2754, 3020, 3311, 3631, 3981, 4365, 4786, 5248, 5754,
      6310, 6918, 7586, 8318, 9120>>

\* 10 ** (diff / (10 * path_loss_exponent)), in DistUnit; diff any integer
TenPow(diff) ==
    IF diff >= 0
    THEN Root25Table[(diff % ten_times_exponent) + 1]
             * Pow10(diff \div ten_times_exponent)
    ELSE (DistUnit * DistUnit)
             \div (Root25Table[((-diff) % ten_times_exponent) + 1]
                      * Pow10((-diff) \div ten_times_exponent))

\* mutant: the exponent's sign is flipped (rssi - reference_rssi)
rssi_to_distance_meters_flipped(rssi) ==
    IF rssi >= reference_rssi THEN reference_distance
    ELSE Min2(Max2((reference_distance * TenPow(rssi - reference_rssi)) \div DistUnit,
                   min_distance), max_distance_m)

\* mutant: the upper clamp is missing
rssi_to_distance_meters_noclamp(rssi) ==
    IF rssi >= reference_rssi THEN reference_distance
    ELSE Max2((reference_distance * TenPow(reference_rssi - rssi)) \div DistUnit,
              min_distance)

\* APLocator._rssi_to_distance_meters
rssi_to_distance_meters(rssi) ==
    IF rssi >= reference_rssi THEN reference_distance
    ELSE LET rssi_diff == reference_rssi - rssi
             distance == (reference_distance * TenPow(rssi_diff)) \div DistUnit
         IN Min2(Max2(distance, min_distance), max_distance_m)

(***************************************************************************)
(* SpecDist: _rssi_to_distance_meters applied to two drawn signal levels   *)
(***************************************************************************)
DistIdle ==
    /\ d_pc = "idle" /\ d_s1 = 0 /\ d_s2 = 0 /\ d_out1 = 0 /\ d_out2 = 0

DistInit ==
    /\ d_pc = "input"
    /\ d_s1 \in SignalRange
    /\ d_s2 \in SignalRange
    /\ d_out1 = 0
    /\ d_out2 = 0

Convert ==
    /\ d_pc = "input"
    /\ d_out1' = rssi_to_distance_meters(d_s1)
    /\ d_out2' = rssi_to_distance_meters(d_s2)
    /\ d_pc' = "done"
    /\ UNCHANGED <<d_s1, d_s2>>
    /\ UNCHANGED <<loc_vars, heat_vars>>

(***************************************************************************)
(* Survey data (core/data_models.py: SurveyPoint, NetworkData)             *)
(***************************************************************************)
\* NetworkData: snr defaults to max(0, signal - noise) with noise = -96, clamped to 60
default_noise == -96
snr_cap == 60
Net(b, s) == [bssid |-> b, signal |-> s,
              snr |-> Max2(0, Min2(snr_cap, Max2(0, s - default_noise)))]
NoIperf == [present |-> FALSE, download_speed |-> 0, upload_speed |-> 0,
            latency |-> 0, jitter |-> 0]
Point(px, py, nets, ip) == [x |-> px, y |-> py, networks |-> nets, iperf_results |-> ip]

\* survey points the locator runs are drawn from
LocPool ==
    { Point(0, 0, <<Net("a", -50), Net("b", -70)>>, NoIperf),
      Point(100, 0, <<Net("a", -50)>>, NoIperf),
      Point(0, 100, <<Net("a", -110), Net("c", -60)>>, NoIperf) }

MaxPoints == 6

RECURSIVE SeqsUpTo(_, _)
SeqsUpTo(S, n) ==
    IF n = 0 THEN { <<>> }
    ELSE LET shorter == SeqsUpTo(S, n - 1)
         IN shorter \cup { Append(s, e) : s \in { t \in shorter : Len(t) = n - 1 }, e \in S }

\* calibration: pixels per metre; 0 stands for "not calibrated"
PpmChoices == {0, 1, 10}

(***************************************************************************)
(* APLocator.estimate_all_aps: grouping (lines 39-58)                      *)
(***************************************************************************)
Measurement(p, n) == [position |-> <<p.x, p.y>>, rssi |-> n.signal]

IndexOf(apm, b) ==
    IF \E i \in 1..Len(apm) : apm[i].bssid = b
    THEN CHOOSE i \in 1..Len(apm) : apm[i].bssid = b
    ELSE 0

AddMeasurement(apm, p, n) ==
    LET i == IndexOf(apm, n.bssid)
    IN IF i = 0
       THEN Append(apm, [bssid |-> n.bssid, measurements |-> <<Measurement(p, n)>>])
       ELSE [apm EXCEPT ![i].measurements = Append(@, Measurement(p, n))]

RECURSIVE GroupNetworks(_, _, _)
GroupNetworks(apm, p, nets) ==
    IF nets = <<>> THEN apm
    ELSE GroupNetworks(AddMeasurement(apm, p, Head(nets)), p, Tail(nets))

(***************************************************************************)
(* APLocator.estimate_ap_position: outlier filter (lines 109-122)          *)
(***************************************************************************)
RssiValues(ms) == [i \in 1..Len(ms) |-> ms[i].rssi]
RssiSquares(ms) == [i \in 1..Len(ms) |-> ms[i].rssi * ms[i].rssi]

\* n^2 * variance (population), an integer: n*sum(x^2) - sum(x)^2
ScaledVariance(ms) ==
    Len(ms) * SeqSum(RssiSquares(ms)) - SeqSum(RssiValues(ms)) * SeqSum(RssiValues(ms))

outlier_std_threshold == 15

\* rssi_std > 15, compared exactly on squares
StdExceeds(ms, k) == ScaledVariance(ms) > k * k * Len(ms) * Len(ms)

\* Where the deviation equals 2 * rssi_std exactly (one measurement against
\* four equal ones), the comparison of line 118 is decided by the rounding of
\* the doubles np.mean and np.std return. Of the ties among the inputs (four at
\* -50 with one at -110, four at -110 with one at -50, four at -50 with one at
\* -92) this is the pair <<signal of the four, signal of the one>> that rounds
\* apart: mean -58.4, std 16.799999999999997, 2 * std 33.599999999999994,
\* deviation 33.6
RoundedApart == { <<-50, -92>> }

TieRoundsApart(ms, m) == \E i \in 1..Len(ms) : <<ms[i].rssi, m.rssi>> \in RoundedApart

\* abs(m.rssi - rssi_mean) <= 2 * rssi_std, compared exactly on squares
WithinTwoStd(ms, m) ==
    LET dev == Len(ms) * m.rssi - SeqSum(RssiValues(ms))
    IN IF dev * dev = 4 * ScaledVariance(ms)
       THEN ~TieRoundsApart(ms, m)
       ELSE dev * dev < 4 * ScaledVariance(ms)

RECURSIVE SelectMeasurements(_, _)
SelectMeasurements(all, ms) ==
    IF ms = <<>> THEN <<>>
    ELSE IF WithinTwoStd(all, Head(ms))
         THEN <<Head(ms)>> \o SelectMeasurements(all, Tail(ms))
         ELSE SelectMeasurements(all, Tail(ms))

\* mutant: nothing is ever dropped
FilterOutliers_keepall(ms) == ms

FilterOutliers(ms) ==
    IF StdExceeds(ms, outlier_std_threshold)
    THEN LET filtered_measurements == SelectMeasurements(ms, ms)
         IN IF Len(filtered_measurements) >= 3 THEN filtered_measurements ELSE ms
    ELSE ms

(***************************************************************************)
(* APLocator.estimate_ap_position: distances (lines 124-137)               *)
(***************************************************************************)
min_distance_pixels == 10 * DistUnit
max_distance_pixels == 1000 * DistUnit

\* mutant: the limits of line 136 are missing
DistancePixels_noclamp(rssi, ppm) == rssi_to_distance_meters(rssi) * ppm

DistancePixels(rssi, ppm) ==
    Max2(min_distance_pixels,
         Min2(rssi_to_distance_meters(rssi) * ppm, max_distance_pixels))

Distances(ms, ppm) == [i \in 1..Len(ms) |-> DistancePixels(ms[i].rssi, ppm)]
Positions(ms) == [i \in 1..Len(ms) |-> ms[i].position]

(***************************************************************************)
(* APLocator._calculate_confidence (lines 244-284)                         *)
(***************************************************************************)
\* confidence 1.0, in the fixed-point unit of confidences (1/10000)
ConfUnit == Pow10(4)

Clamp01(c) == Max2(0, Min2(ConfUnit, c))

\* floor(100 * np.std(rssi_values))
RssiStd100(ms) == ISqrt(ScaledVariance(ms) * 10000) \div Len(ms)

\* min(1.0, len(measurements) / 8.0)
CountFactor(ms) == Min2(ConfUnit, (Len(ms) * ConfUnit) \div 8)

\* max(0.0, 1.0 - rssi_std / 25.0)
ConsistencyFactor(ms) == Max2(0, ConfUnit - (RssiStd100(ms) * ConfUnit) \div (25 * 100))

Xs(ms) == [i \in 1..Len(ms) |-> ms[i].position[1]]
Ys(ms) == [i \in 1..Len(ms) |-> ms[i].position[2]]

\* mutant: below 4 positions the spatial factor is 0 instead of the neutral 0.5
SpatialFactor_zerobelow4(ms, ppm) ==
    IF Len(ms) >= 4
    THEN LET x_spread == SeqMax(Xs(ms)) - SeqMin(Xs(ms))
             y_spread == SeqMax(Ys(ms)) - SeqMin(Ys(ms))
         IN Min2(ConfUnit, ((x_spread + y_spread) * ConfUnit) \div (2 * ppm * 20))
    ELSE 0

\* min(1.0, (((x_spread + y_spread) / 2) / pixels_per_meter) / 20.0), or 0.5
SpatialFactor(ms, ppm) ==
    IF Len(ms) >= 4
    THEN LET x_spread == SeqMax(Xs(ms)) - SeqMin(Xs(ms))
             y_spread == SeqMax(Ys(ms)) - SeqMin(Ys(ms))
         IN Min2(ConfUnit, ((x_spread + y_spread) * ConfUnit) \div (2 * ppm * 20))
    ELSE ConfUnit \div 2

\* max(0.0, min(1.0, (avg_rssi + 100) / 40.0))
SignalFactor(ms) ==
    Clamp01(((SeqSum(RssiValues(ms)) + 100 * Len(ms)) * ConfUnit) \div (40 * Len(ms)))

\* mutant: the guard is off by one (fewer than 2)
calculate_confidence_offbyone(ms, ppm) ==
    IF Len(ms) < 2 THEN 0
    ELSE Clamp01((3 * CountFactor(ms) + 3 * ConsistencyFactor(ms)
             + 2 * SpatialFactor(ms, ppm) + 2 * SignalFactor(ms)) \div 10)

calculate_confidence(ms, ppm) ==
    IF Len(ms) < 3 THEN 0
    ELSE LET confidence == (3 * CountFactor(ms) + 3 * ConsistencyFactor(ms)
                            + 2 * SpatialFactor(ms, ppm) + 2 * SignalFactor(ms)) \div 10
         IN Clamp01(confidence)

(***************************************************************************)
(* APLocator.estimate_ap_position: initial positions (lines 139-170)       *)
(***************************************************************************)
\* range(3), line 167
jittered_seeds == 3

\* 1.0 pixel of an initial position, in its fixed-point unit (1/1000)
PosUnit == Pow10(3)

\* 1000 * 10 ** (rssi / 20.0) for rssi = -19 .. -10; at -20 and below it is <= 100
WeightTable == <<112, 126, 141, 158, 178, 200, 224, 251, 282, 316>>

\* lines 143-144: max(0.1, 10 ** (rssi / 20.0)), in thousandths
Weight(rssi) == IF rssi <= -20 THEN 100 ELSE Max2(100, WeightTable[rssi + 20])

Weights(ms) == [i \in 1..Len(ms) |-> Weight(ms[i].rssi)]

\* line 163: the plain centroid (of an empty list np.mean gives nan, written 0
\* here; the guard of line 106 excludes it)
SimpleCentroid(ms) ==
    IF Len(ms) = 0 THEN <<0, 0>>
    ELSE <<(SeqSum(Xs(ms)) * PosUnit) \div Len(ms), (SeqSum(Ys(ms)) * PosUnit) \div Len(ms)>>

\* lines 146-154: the signal-weighted centroid, or the plain one without weight
WeightedCentroid(ms) ==
    LET w == Weights(ms)
        total_weight == SeqSum(w)
    IN IF total_weight > 0
       THEN <<(SeqSum([i \in 1..Len(ms) |-> ms[i].position[1] * w[i]]) * PosUnit)
                 \div total_weight,
              (SeqSum([i \in 1..Len(ms) |-> ms[i].position[2] * w[i]]) * PosUnit)
                 \div total_weight>>
       ELSE SimpleCentroid(ms)

\* np.random.normal(0, 50) on the process-wide generator: the pixel offsets it
\* produces, by the number of values produced before; the code never seeds it
NormalStream ==
    <<31, -72, 8, 55, -19, -44, 67, 2, -38, 90, -11, 24, -63, 47, 13, -85, 36, -5>>

Normal(drawn) == NormalStream[(drawn % Len(NormalStream)) + 1]

\* direct calls of estimate_ap_position are explored for the measurements of up
\* to this many survey points
MaxDirectPoints == 4

\* solves a process may have run before a direct call of estimate_ap_position
MaxEarlierSolves == 1

\* lines 161-170: the two centroids, then range(3) jittered positions
InitialPositions(ms, drawn) ==
    LET c == WeightedCentroid(ms)
    IN <<c, SimpleCentroid(ms)>> \o
       [k \in 1..jittered_seeds |->
           <<c[1] + Normal(drawn + 2 * (k - 1)) * PosUnit,
             c[2] + Normal(drawn + 2 * (k - 1) + 1) * PosUnit>>]

(***************************************************************************)
(* scipy.optimize.minimize as called at lines 174-180: the result of one   *)
(* run is an input of the model (raised, or an OptimizeResult)             *)
(***************************************************************************)
MaxFun == 1

ResultPositions == { <<50, 50>>, <<2000, 0>>, <<1900, 100>> }

OptimizeResults ==
    [raised : {FALSE}, success : BOOLEAN, fun : 0..MaxFun, x : ResultPositions]
        \cup { [raised |-> TRUE, success |-> FALSE, fun |-> 0, x |-> <<0, 0>>] }

NoResult == [found |-> FALSE, success |-> FALSE, fun |-> 0, x |-> <<0, 0>>]

\* two centroids (lines 161-164) plus range(3) jittered positions (lines 167-170)
NumSeeds == 2 + jittered_seeds

\* mutant: every converged run replaces the one kept
KeepBest_latest(best, r) ==
    IF (~r.raised) /\ r.success
    THEN [found |-> TRUE, success |-> r.success, fun |-> r.fun, x |-> r.x]
    ELSE best

\* lines 182-184: keep a converged run with a strictly smaller objective
KeepBest(best, r) ==
    IF (~r.raised) /\ r.success /\ ((~best.found) \/ r.fun < best.fun)
    THEN [found |-> TRUE, success |-> r.success, fun |-> r.fun, x |-> r.x]
    ELSE best

max_distance_limit == 200

\* lines 194-199: max_distance < 200, compared exactly on squares
WithinSanityBound(x, positions, ppm) ==
    \A i \in 1..Len(positions) :
        (x[1] - positions[i][1]) * (x[1] - positions[i][1])
          + (x[2] - positions[i][2]) * (x[2] - positions[i][2])
            < (max_distance_limit * ppm) * (max_distance_limit * ppm)

\* lines 189-202: the value estimate_ap_position returns
NoPosition == [some |-> FALSE, x |-> <<0, 0>>]
ValidatedPosition(best, positions, ppm) ==
    IF best.found /\ best.success /\ WithinSanityBound(best.x, positions, ppm)
    THEN [some |-> TRUE, x |-> best.x]
    ELSE NoPosition

(***************************************************************************)
(* APLocator.validate_position (lines 286-327)                             *)
(***************************************************************************)
\* every network entry of the survey with the given BSSID, as a pair of the
\* point's position and the entry's signal (lines 291-294)
RECURSIVE NetworkSamples(_, _)
NetworkSamples(pts, b) ==
    IF pts = <<>> THEN <<>>
    ELSE LET nets == SelectSeq(Head(pts).networks, LAMBDA n : n.bssid = b)
         IN [i \in 1..Len(nets) |-> Measurement(Head(pts), nets[i])]
               \o NetworkSamples(Tail(pts), b)

\* dx*dx + dy*dy of lines 295-297, in squared raster units
PixelDist2(position, p) ==
    (p[1] - position[1]) * (p[1] - position[1]) + (p[2] - position[2]) * (p[2] - position[2])

\* one decibel, in the fixed-point unit of signal errors (1/100 dB)
ErrUnit == Pow10(2)

\* binary logarithm of an integer n >= 1 in units of 1/1024: the exponent, then
\* ten fraction bits by repeated squaring of the mantissa (kept in units of 2^-14)
RECURSIVE ILog2(_)
ILog2(n) == IF n < 2 THEN 0 ELSE 1 + ILog2(n \div 2)

RECURSIVE Pow2(_)
Pow2(k) == IF k = 0 THEN 1 ELSE 2 * Pow2(k - 1)

RECURSIVE FracBits(_, _, _)
FracBits(mant, k, acc) ==
    IF k = 0 THEN acc
    ELSE LET sq == (mant * mant) \div Pow2(14)
         IN IF sq >= Pow2(15) THEN FracBits(sq \div 2, k - 1, 2 * acc + 1)
                              ELSE FracBits(sq, k - 1, 2 * acc)

Log2(n) ==
    LET e == ILog2(n)
        mant == IF e >= 14 THEN n \div Pow2(e - 14) ELSE n * Pow2(14 - e)
    IN e * Pow2(10) + FracBits(mant, 10, 0)

\* 10 * path_loss_exponent * log10(2) = 7.52575, times 1000
decibels_per_octave == 7526

\* lines 301-303: expected_rssi at a squared raster distance d2, in ErrUnit.
\* distance_m = sqrt(d2) / pixels_per_meter, so 25 * log10(distance_m) is
\* 7.526 * (log2(d2) / 2 - log2(ppm)); below 0.1 m the logarithm is that of 0.1
expected_rssi(d2, ppm) ==
    IF d2 * 100 <= ppm * ppm
    THEN (reference_rssi + ten_times_exponent) * ErrUnit
    ELSE reference_rssi * ErrUnit
            - (decibels_per_octave * (Log2(d2) - 2 * Log2(ppm))) \div (20 * Pow2(10))

\* line 311: abs(expected_rssi - actual_rssi), in ErrUnit
SampleError(position, m, ppm) ==
    Abs(expected_rssi(PixelDist2(position, m.position), ppm) - m.rssi * ErrUnit)

error_threshold == 25
distance_ceiling == 150

\* lines 317 and 321: np.mean of the errors exceeds 25
ErrorTooHigh(position, ms, ppm) ==
    SeqSum([i \in 1..Len(ms) |-> SampleError(position, ms[i], ppm)])
        > error_threshold * ErrUnit * Len(ms)

\* lines 318 and 324: the largest distance_m exceeds 150
DistanceTooLarge(position, ms, ppm) ==
    \E i \in 1..Len(ms) :
        PixelDist2(position, ms[i].position)
            > (distance_ceiling * ppm) * (distance_ceiling * ppm)

\* mutant: the distance ceiling is tested before the error threshold
validate_position_distancefirst(position, pts, b, ppm) ==
    LET ms == NetworkSamples(pts, b)
    IN IF ms = <<>> THEN "no_measurements"
       ELSE IF DistanceTooLarge(position, ms, ppm) THEN "excessive_distance"
       ELSE IF ErrorTooHigh(position, ms, ppm) THEN "high_error"
       ELSE "valid"

\* the verdict of validate_position: "valid" stands for (True, ...), the other
\* three for (False, ...) with the respective message
validate_position(position, pts, b, ppm) ==
    LET ms == NetworkSamples(pts, b)
    IN IF ms = <<>> THEN "no_measurements"
       ELSE IF ErrorTooHigh(position, ms, ppm) THEN "high_error"
       ELSE IF DistanceTooLarge(position, ms, ppm) THEN "excessive_distance"
       ELSE "valid"

(***************************************************************************)
(* APLocator.get_coverage_radius (lines 329-350)                           *)
(***************************************************************************)
\* one raster unit, in the fixed-point unit of radii (1/100)
RadUnit == Pow10(2)

usable_signal_floor == -85
default_radius == 50
min_radius == 20
max_radius == 300

\* lines 336-344: the distances to the entries of the emitter with usable signal
UsableDistances(b, position, pts) ==
    LET ms == SelectSeq(NetworkSamples(pts, b), LAMBDA m : m.rssi >= usable_signal_floor)
    IN [i \in 1..Len(ms) |-> ISqrt(PixelDist2(position, ms[i].position) * RadUnit * RadUnit)]

\* np.percentile(distances, 90): linear interpolation between the order
\* statistics around the rank 0.9 * (n - 1)
Percentile90(distances) ==
    LET sorted == SortSeq(distances, LAMBDA u, v : u < v)
        n == Len(sorted)
        lo == (9 * (n - 1)) \div 10 + 1
        hi == Min2(lo + 1, n)
        tenths == (9 * (n - 1)) % 10
    IN sorted[lo] + (tenths * (sorted[hi] - sorted[lo])) \div 10

\* mutant: the percentile is returned without the clamp into [20, 300]
get_coverage_radius_noclamp(b, position, pts) ==
    IF ~position.some THEN default_radius * RadUnit
    ELSE LET distances == UsableDistances(b, position.x, pts)
         IN IF distances # <<>> THEN Percentile90(distances)
            ELSE default_radius * RadUnit

\* position: NoPosition stands for None
get_coverage_radius(b, position, pts) ==
    IF ~position.some THEN default_radius * RadUnit
    ELSE LET distances == UsableDistances(b, position.x, pts)
         IN IF distances # <<>>
            THEN Max2(min_radius * RadUnit, Min2(Percentile90(distances), max_radius * RadUnit))
            ELSE default_radius * RadUnit

\* positions a caller passes to validate_position and get_coverage_radius
CallPositions == { <<0, 0>>, <<50, 50>>, <<400, 0>> }

(***************************************************************************)
(* APLocator.estimate_all_aps / estimate_ap_position as a state machine    *)
(***************************************************************************)
BSSIDs == {"a", "b", "c"}

NoEstimate == [present |-> FALSE, x |-> 0, y |-> 0, confidence |-> 0,
               measurement_count |-> 0]

IdleCur == [mode |-> "none", bssid |-> "", given |-> <<>>, measurements |-> <<>>,
            distances |-> <<>>, initial_positions |-> <<>>, seed |-> 0,
            converged |-> {}, score |-> 0, best |-> NoResult,
            returned |-> NoPosition, position |-> NoPosition, radius |-> 0,
            verdict |-> "none"]

LocIdle ==
    /\ survey_points = <<>> /\ pixels_per_meter = 0 /\ loc_pc = "idle"
    /\ random_state = 0
    /\ pt_idx = 0 /\ ap_measurements = <<>> /\ ap_idx = 0 /\ cur = IdleCur
    /\ estimated_aps = [b \in BSSIDs |-> NoEstimate]
    /\ outcome = [b \in BSSIDs |-> "none"]

LocInit ==
    /\ survey_points \in SeqsUpTo(LocPool, MaxPoints)
    /\ pixels_per_meter \in PpmChoices
    /\ loc_pc = "start"
    /\ random_state = 0
    /\ pt_idx = 1
    /\ ap_measurements = <<>>
    /\ ap_idx = 1
    /\ cur = IdleCur
    /\ estimated_aps = [b \in BSSIDs |-> NoEstimate]
    /\ outcome = [b \in BSSIDs |-> "none"]

\* the measurements of one emitter as estimate_all_aps would group them
RECURSIVE GroupAll(_, _)
GroupAll(apm, pts) ==
    IF pts = <<>> THEN apm
    ELSE GroupAll(GroupNetworks(apm, Head(pts), Head(pts).networks), Tail(pts))

MeasurementsOf(pts, b) ==
    LET apm == GroupAll(<<>>, pts)
    IN IF IndexOf(apm, b) = 0 THEN <<>> ELSE apm[IndexOf(apm, b)].measurements

\* lines 33-35: nothing to do without survey points or calibration
StartPass ==
    /\ loc_pc = "start"
    /\ loc_pc' = IF survey_points = <<>> \/ pixels_per_meter = 0 THEN "done" ELSE "group"
    /\ UNCHANGED <<random_state, survey_points, pixels_per_meter, pt_idx, ap_measurements,
                   ap_idx, cur, estimated_aps, outcome>>
    /\ UNCHANGED <<dist_vars, heat_vars>>

\* lines 42-58: one iteration of the loop over survey points
GroupPoint ==
    /\ loc_pc = "group"
    /\ pt_idx <= Len(survey_points)
    /\ ap_measurements' = GroupNetworks(ap_measurements, survey_points[pt_idx],
                                        survey_points[pt_idx].networks)
    /\ pt_idx' = pt_idx + 1
    /\ loc_pc' = IF pt_idx = Len(survey_points) THEN "loop" ELSE "group"
    /\ UNCHANGED <<random_state, survey_points, pixels_per_meter, ap_idx, cur, estimated_aps, outcome>>
    /\ UNCHANGED <<dist_vars, heat_vars>>

\* lines 68-70: an emitter with fewer than 3 measurements is skipped
SkipAP ==
    /\ loc_pc = "loop"
    /\ ap_idx <= Len(ap_measurements)
    /\ Len(ap_measurements[ap_idx].measurements) < 3
    /\ outcome' = [outcome EXCEPT ![ap_measurements[ap_idx].bssid] = "skipped"]
    /\ ap_idx' = ap_idx + 1
    /\ UNCHANGED <<random_state, survey_points, pixels_per_meter, loc_pc, pt_idx, ap_measurements,
                   cur, estimated_aps>>
    /\ UNCHANGED <<dist_vars, heat_vars>>

\* mutant: estimate_ap_position without its "fewer than 3" guard
EnterEstimate_noguard(mode, b, ms, drawn) ==
    /\ cur' = [mode |-> mode, bssid |-> b, given |-> ms,
               measurements |-> FilterOutliers(ms),
               distances |-> Distances(FilterOutliers(ms), pixels_per_meter),
               initial_positions |-> InitialPositions(FilterOutliers(ms), drawn),
               seed |-> 0, converged |-> {}, score |-> 0, best |-> NoResult,
               returned |-> NoPosition, position |-> NoPosition, radius |-> 0,
               verdict |-> "none"]
    /\ random_state' = drawn + 2 * jittered_seeds
    /\ loc_pc' = "optimize"
    /\ UNCHANGED <<ap_idx, outcome>>

\* estimate_ap_position, lines 104-170: guard, outlier filter, distances, seeds.
\* With fewer than 3 measurements it returns None at once: a direct caller gets
\* None, estimate_all_aps takes the "no position" branch (lines 94-95).
\* drawn is the number of values the process-wide generator np.random has
\* already produced when the call is made.
EnterEstimate(mode, b, ms, drawn) ==
    IF Len(ms) < 3
    THEN IF mode = "pass"
         THEN /\ cur' = IdleCur
              /\ loc_pc' = "loop"
              /\ ap_idx' = ap_idx + 1
              /\ outcome' = [outcome EXCEPT ![b] = "failed"]
              /\ random_state' = drawn
         ELSE /\ cur' = [IdleCur EXCEPT !.mode = mode, !.bssid = b, !.given = ms]
              /\ loc_pc' = "returned"
              /\ random_state' = drawn
              /\ UNCHANGED <<ap_idx, outcome>>
    ELSE /\ cur' = [mode |-> mode, bssid |-> b, given |-> ms,
                    measurements |-> FilterOutliers(ms),
                    distances |-> Distances(FilterOutliers(ms), pixels_per_meter),
                    initial_positions |-> InitialPositions(FilterOutliers(ms), drawn),
                    seed |-> 0, converged |-> {}, score |-> 0, best |-> NoResult,
                    returned |-> NoPosition, position |-> NoPosition, radius |-> 0,
                    verdict |-> "none"]
         /\ random_state' = drawn + 2 * jittered_seeds
         /\ loc_pc' = "optimize"
         /\ UNCHANGED <<ap_idx, outcome>>

\* line 75: estimate_all_aps calls estimate_ap_position for the next emitter
BeginSolve ==
    /\ loc_pc = "loop"
    /\ ap_idx <= Len(ap_measurements)
    /\ Len(ap_measurements[ap_idx].measurements) >= 3
    /\ EnterEstimate("pass", ap_measurements[ap_idx].bssid,
                     ap_measurements[ap_idx].measurements, random_state)
    /\ UNCHANGED <<survey_points, pixels_per_meter, pt_idx, ap_measurements,
                   estimated_aps>>
    /\ UNCHANGED <<dist_vars, heat_vars>>

\* a caller invokes estimate_ap_position (line 104) with one emitter's
\* measurements, in a process that has run some solves before
DirectCall ==
    /\ loc_pc = "start"
    /\ pixels_per_meter # 0
    /\ Len(survey_points) <= MaxDirectPoints
    /\ \E b \in BSSIDs, earlier \in 0..MaxEarlierSolves :
          EnterEstimate("direct", b, MeasurementsOf(survey_points, b),
                        random_state + earlier * 2 * jittered_seeds)
    /\ UNCHANGED <<survey_points, pixels_per_meter, pt_idx, ap_measurements,
                   estimated_aps>>
    /\ UNCHANGED <<dist_vars, heat_vars>>

\* measurement lists a caller hands to estimate_ap_position itself: three, four
\* and five measurements of which one is 42 dB weaker than the others
MeasurementLists ==
    { <<[position |-> <<0, 0>>, rssi |-> -50], [position |-> <<100, 0>>, rssi |-> -50],
        [position |-> <<0, 100>>, rssi |-> -92]>>,
      <<[position |-> <<0, 0>>, rssi |-> -50], [position |-> <<100, 0>>, rssi |-> -50],
        [position |-> <<0, 100>>, rssi |-> -92], [position |-> <<100, 100>>, rssi |-> -50]>>,
      <<[position |-> <<0, 0>>, rssi |-> -50], [position |-> <<100, 0>>, rssi |-> -50],
        [position |-> <<0, 100>>, rssi |-> -92], [position |-> <<100, 100>>, rssi |-> -50],
        [position |-> <<50, 50>>, rssi |-> -50]>> }

\* a caller invokes estimate_ap_position (line 104) with a measurement list
ListCall ==
    /\ loc_pc = "start"
    /\ pixels_per_meter # 0
    /\ survey_points = <<>>
    /\ \E ms \in MeasurementLists : EnterEstimate("list", "a", ms, random_state)
    /\ UNCHANGED <<survey_points, pixels_per_meter, pt_idx, ap_measurements,
                   estimated_aps>>
    /\ UNCHANGED <<dist_vars, heat_vars>>

\* a caller invokes _calculate_confidence (line 244) with one emitter's measurements
ScoreCall ==
    /\ loc_pc = "start"
    /\ pixels_per_meter # 0
    /\ \E b \in BSSIDs :
          cur' = [IdleCur EXCEPT !.mode = "score", !.bssid = b,
                     !.given = MeasurementsOf(survey_points, b),
                     !.score = calculate_confidence(MeasurementsOf(survey_points, b),
                                                    pixels_per_meter)]
    /\ loc_pc' = "scored"
    /\ UNCHANGED <<random_state, survey_points, pixels_per_meter, pt_idx, ap_measurements,
                   ap_idx, estimated_aps, outcome>>
    /\ UNCHANGED <<dist_vars, heat_vars>>

\* a caller invokes get_coverage_radius (line 329) for one emitter, with a
\* position or with None
CoverageCall ==
    /\ loc_pc = "start"
    /\ pixels_per_meter # 0
    /\ Len(survey_points) <= MaxDirectPoints
    /\ \E b \in BSSIDs,
          position \in {[some |-> TRUE, x |-> x] : x \in CallPositions} \cup {NoPosition} :
          cur' = [IdleCur EXCEPT !.mode = "coverage", !.bssid = b, !.position = position,
                     !.radius = get_coverage_radius(b, position, survey_points)]
    /\ loc_pc' = "measured"
    /\ UNCHANGED <<random_state, survey_points, pixels_per_meter, pt_idx, ap_measurements,
                   ap_idx, estimated_aps, outcome>>
    /\ UNCHANGED <<dist_vars, heat_vars>>

\* a caller invokes validate_position (line 286) for one emitter and a position
ValidateCall ==
    /\ loc_pc = "start"
    /\ pixels_per_meter # 0
    /\ Len(survey_points) <= MaxDirectPoints
    /\ \E b \in BSSIDs, x \in CallPositions :
          cur' = [IdleCur EXCEPT !.mode = "validate", !.bssid = b,
                     !.position = [some |-> TRUE, x |-> x],
                     !.verdict = validate_position(x, survey_points, b, pixels_per_meter)]
    /\ loc_pc' = "validated"
    /\ UNCHANGED <<random_state, survey_points, pixels_per_meter, pt_idx, ap_measurements,
                   ap_idx, estimated_aps, outcome>>
    /\ UNCHANGED <<dist_vars, heat_vars>>

\* the caller of estimate_ap_position passes the position it received to
\* validate_position, with the same survey and the same emitter
ValidateReturned ==
    /\ loc_pc = "returned"
    /\ cur.mode = "direct"
    /\ cur.returned.some
    /\ cur' = [cur EXCEPT !.position = cur.returned,
                          !.verdict = validate_position(cur.returned.x, survey_points,
                                                        cur.bssid, pixels_per_meter)]
    /\ loc_pc' = "validated"
    /\ UNCHANGED <<random_state, survey_points, pixels_per_meter, pt_idx, ap_measurements,
                   ap_idx, estimated_aps, outcome>>
    /\ UNCHANGED <<dist_vars, heat_vars>>

\* lines 172-187: one optimizer run from the next seed; converged collects the
\* objective values of the runs that reported success
RunSeed ==
    /\ loc_pc = "optimize"
    /\ cur.seed < NumSeeds
    /\ \E r \in OptimizeResults :
          cur' = [cur EXCEPT !.seed = @ + 1, !.best = KeepBest(@, r),
                             !.converged = IF (~r.raised) /\ r.success
                                           THEN @ \cup {r.fun} ELSE @]
    /\ loc_pc' = IF cur.seed + 1 = NumSeeds THEN "validate" ELSE "optimize"
    /\ UNCHANGED <<random_state, survey_points, pixels_per_meter, pt_idx, ap_measurements,
                   ap_idx, estimated_aps, outcome>>
    /\ UNCHANGED <<dist_vars, heat_vars>>

\* lines 77-92: the APPosition built for a solved emitter
MakeEstimate(pos, ms, ppm) ==
    [present |-> TRUE, x |-> pos.x[1], y |-> pos.x[2],
     confidence |-> calculate_confidence(ms, ppm),
     measurement_count |-> Len(ms)]

\* lines 189-202, then lines 77-95 of the caller
ValidateAndEmit ==
    /\ loc_pc = "validate"
    /\ LET pos == ValidatedPosition(cur.best, Positions(cur.measurements), pixels_per_meter)
       IN /\ IF cur.mode = "pass"
             THEN /\ loc_pc' = "loop"
                  /\ cur' = IdleCur
                  /\ ap_idx' = ap_idx + 1
                  /\ estimated_aps' =
                        IF pos.some
                        THEN [estimated_aps EXCEPT ![cur.bssid] =
                                 MakeEstimate(pos, ap_measurements[ap_idx].measurements,
                                              pixels_per_meter)]
                        ELSE estimated_aps
                  /\ outcome' = [outcome EXCEPT ![cur.bssid] =
                                    IF pos.some THEN "estimated" ELSE "failed"]
             ELSE /\ loc_pc' = "returned"
                  /\ cur' = [cur EXCEPT !.returned = pos]
                  /\ UNCHANGED <<ap_idx, estimated_aps, outcome>>
    /\ UNCHANGED <<random_state, survey_points, pixels_per_meter, pt_idx, ap_measurements>>
    /\ UNCHANGED <<dist_vars, heat_vars>>

\* mutant: the handler of lines 97-99 is missing, the exception leaves the pass
SolveRaises_abort ==
    /\ loc_pc \in {"optimize", "validate"}
    /\ loc_pc' = "raised"
    /\ UNCHANGED <<random_state, survey_points, pixels_per_meter, pt_idx, ap_measurements,
                   ap_idx, cur, estimated_aps, outcome>>
    /\ UNCHANGED <<dist_vars, heat_vars>>

\* an exception raised while estimate_ap_position runs: inside estimate_all_aps it
\* is caught by lines 97-99 and the loop continues; a direct caller receives it
SolveRaises ==
    /\ loc_pc \in {"optimize", "validate"}
    /\ IF cur.mode = "pass"
       THEN /\ outcome' = [outcome EXCEPT ![cur.bssid] = "exception"]
            /\ ap_idx' = ap_idx + 1
            /\ loc_pc' = "loop"
            /\ cur' = IdleCur
       ELSE /\ loc_pc' = "raised"
            /\ UNCHANGED <<outcome, ap_idx, cur>>
    /\ UNCHANGED <<random_state, survey_points, pixels_per_meter, pt_idx, ap_measurements,
                   estimated_aps>>
    /\ UNCHANGED <<dist_vars, heat_vars>>

\* lines 101-102: every emitter was visited, the mapping is returned
FinishPass ==
    /\ loc_pc = "loop"
    /\ ap_idx > Len(ap_measurements)
    /\ loc_pc' = "done"
    /\ UNCHANGED <<random_state, survey_points, pixels_per_meter, pt_idx, ap_measurements,
                   ap_idx, cur, estimated_aps, outcome>>
    /\ UNCHANGED <<dist_vars, heat_vars>>

(***************************************************************************)
(* HeatmapGenerator: inputs                                                *)
(***************************************************************************)
\* 1.0 of a metric (dBm, dB, Mbps, ms), in the fixed-point unit of values (1/100)
ValUnit == Pow10(2)

Metrics == {"rssi", "snr", "download", "upload", "ping", "jitter"}

Iperf(dl, ul, lat, jit) == [present |-> TRUE, download_speed |-> dl, upload_speed |-> ul,
                            latency |-> lat, jitter |-> jit]

\* 50 Mbps down, 10 Mbps up, 20 ms latency, 0.5 ms jitter
SteadyIperf == Iperf(50 * ValUnit, 10 * ValUnit, 20 * ValUnit, ValUnit \div 2)

\* survey points the heatmap runs are drawn from
HeatPool ==
    { Point(2, 2, <<Net("a", -60)>>, SteadyIperf),
      Point(3, 2, <<Net("a", -60)>>, SteadyIperf),
      Point(2, 3, <<Net("a", -60)>>, SteadyIperf),
      Point(3, 4, <<Net("a", -60)>>, SteadyIperf),
      Point(6, 6, <<Net("a", -90), Net("b", -50)>>,
            Iperf(200 * ValUnit, 0, 500 * ValUnit, 5 * ValUnit)),
      Point(5, 1, <<>>, NoIperf) }

MaxHeatPoints == 3

\* surveys of the four corners of an 8 x 8 raster: their hull covers its grid
CornerSurveys ==
    { <<Point(0, 0, <<Net("a", -60)>>, SteadyIperf), Point(8, 0, <<Net("a", -70)>>, SteadyIperf),
        Point(0, 8, <<Net("a", -50)>>, SteadyIperf), Point(8, 8, <<Net("a", -80)>>, SteadyIperf)>>,
      <<Point(8, 8, <<Net("a", -60)>>, SteadyIperf), Point(0, 0, <<Net("a", -60)>>, SteadyIperf),
        Point(8, 0, <<Net("a", -60)>>, SteadyIperf), Point(0, 8, <<Net("a", -60)>>, SteadyIperf)>> }

\* requested raster sizes (width, height)
Sizes == { <<8, 8>>, <<12, 8>> }

\* a raster wide enough for width // 2 to exceed the grid's bound of 200
WideSize == <<597, 8>>

\* the surveys rendered on the wide raster: samples that span a triangle, and
\* samples on one line
WideSurveys ==
    { <<Point(2, 2, <<Net("a", -60)>>, SteadyIperf), Point(3, 2, <<Net("a", -60)>>, SteadyIperf),
        Point(2, 3, <<Net("a", -60)>>, SteadyIperf)>>,
      <<Point(2, 2, <<Net("a", -60)>>, SteadyIperf), Point(3, 2, <<Net("a", -60)>>, SteadyIperf),
        Point(590, 2, <<Net("a", -70)>>, SteadyIperf)>> }

\* target_bssid: "" stands for None
Targets == {"", "a"}

(***************************************************************************)
(* HeatmapGenerator._extract_metric_value (lines 85-130)                   *)
(***************************************************************************)
None == [some |-> FALSE, v |-> 0]
Some(val) == [some |-> TRUE, v |-> val]

latency_cutoff == 999

\* max(networks, key=signal): the first network of maximal signal
RECURSIVE StrongestNetwork(_)
StrongestNetwork(nets) ==
    IF Len(nets) = 1 THEN nets[1]
    ELSE LET rest == StrongestNetwork(Tail(nets))
         IN IF Head(nets).signal >= rest.signal THEN Head(nets) ELSE rest

\* lines 114-117: the first network with the target BSSID, if any
FirstWithBssid(nets, b) ==
    IF \E i \in 1..Len(nets) : nets[i].bssid = b
    THEN Some(nets[CHOOSE i \in 1..Len(nets) :
                      /\ nets[i].bssid = b
                      /\ \A j \in 1..(i - 1) : nets[j].bssid # b])
    ELSE None

\* mutant: ping keeps every latency, 0 and the values from 999 on included
extract_metric_value_anylatency(point, target_bssid, metric) ==
    IF metric \in {"download", "upload", "ping", "jitter"}
    THEN IF ~point.iperf_results.present THEN None
         ELSE CASE metric = "download" -> Some(point.iperf_results.download_speed)
                [] metric = "upload" -> Some(point.iperf_results.upload_speed)
                [] metric = "ping" -> Some(point.iperf_results.latency)
                [] metric = "jitter" -> Some(point.iperf_results.jitter)
    ELSE IF point.networks = <<>> THEN None
         ELSE LET target_network ==
                      IF target_bssid # "" THEN FirstWithBssid(point.networks, target_bssid)
                      ELSE Some(StrongestNetwork(point.networks))
              IN IF ~target_network.some THEN None
                 ELSE IF metric = "rssi" THEN Some(target_network.v.signal * ValUnit)
                      ELSE Some(target_network.v.snr * ValUnit)

extract_metric_value(point, target_bssid, metric) ==
    IF metric \in {"download", "upload", "ping", "jitter"}
    THEN IF ~point.iperf_results.present THEN None
         ELSE CASE metric = "download" -> Some(point.iperf_results.download_speed)
                [] metric = "upload" -> Some(point.iperf_results.upload_speed)
                [] metric = "ping" ->
                     IF point.iperf_results.latency # 0
                        /\ point.iperf_results.latency < latency_cutoff * ValUnit
                     THEN Some(point.iperf_results.latency) ELSE None
                [] metric = "jitter" -> Some(point.iperf_results.jitter)
    ELSE IF point.networks = <<>> THEN None
         ELSE LET target_network ==
                      IF target_bssid # "" THEN FirstWithBssid(point.networks, target_bssid)
                      ELSE Some(StrongestNetwork(point.networks))
              IN IF ~target_network.some THEN None
                 ELSE IF metric = "rssi" THEN Some(target_network.v.signal * ValUnit)
                      ELSE Some(target_network.v.snr * ValUnit)

\* generate, lines 64-69
RECURSIVE ExtractPoints(_, _, _)
ExtractPoints(pts, target_bssid, metric) ==
    IF pts = <<>> THEN <<>>
    ELSE LET value == extract_metric_value(Head(pts), target_bssid, metric)
             rest == ExtractPoints(Tail(pts), target_bssid, metric)
         IN IF value.some
            THEN <<[x |-> Head(pts).x, y |-> Head(pts).y, value |-> value.v]>> \o rest
            ELSE rest

(***************************************************************************)
(* HeatmapGenerator._get_metric_ranges (lines 132-167)                     *)
(***************************************************************************)
Values(points) == [i \in 1..Len(points) |-> points[i].value]

rssi_floor == -95
rssi_ceiling == -30
snr_ceiling == 60
speed_ceiling == 100
latency_ceiling == 300

\* the pair (range_min, range_max); the inversion flag is not used by the caller
get_metric_ranges(points, metric) ==
    LET min_val == SeqMin(Values(points))
        max_val == SeqMax(Values(points))
    IN CASE metric = "rssi" ->
              <<Min2(rssi_floor * ValUnit, min_val - 5 * ValUnit),
                Max2(rssi_ceiling * ValUnit, max_val + 5 * ValUnit)>>
         [] metric = "snr" ->
              <<Max2(0, min_val - 2 * ValUnit),
                Min2(snr_ceiling * ValUnit, max_val + 5 * ValUnit)>>
         [] metric \in {"download", "upload"} ->
              <<0, Max2(speed_ceiling * ValUnit, (max_val * 12) \div 10)>>
         [] metric \in {"ping", "jitter"} ->
              <<0, Min2(latency_ceiling * ValUnit, (max_val * 13) \div 10)>>
         [] OTHER ->
              <<min_val - (max_val - min_val) \div 10, max_val + (max_val - min_val) \div 10>>

\* _generate_heatmap, lines 175-177
ValidRange(r) == IF r[2] <= r[1] THEN <<r[1], r[1] + 1 * ValUnit>> ELSE r

(***************************************************************************)
(* HeatmapGenerator._generate_heatmap: intermediate grid (lines 179-185)   *)
(***************************************************************************)
max_grid_resolution == 200

GridResX(w) == Min2(w \div 2, max_grid_resolution)
GridResY(h) == Min2(h \div 2, max_grid_resolution)

\* np.linspace(0, width, n) places cell j at j * width / (n - 1). Coordinates are
\* kept exact by scaling every length with CoordScale(w, h).
StepsX(w) == Max2(1, GridResX(w) - 1)
StepsY(h) == Max2(1, GridResY(h) - 1)
RECURSIVE GCD(_, _)
GCD(a, b) == IF b = 0 THEN a ELSE GCD(b, a % b)

\* the denominator of the cell spacing width / (n - 1), in lowest terms
DenomX(w) == StepsX(w) \div GCD(w, StepsX(w))
DenomY(h) == StepsY(h) \div GCD(h, StepsY(h))

\* the least common multiple of the two denominators, for each raster size
ScaleOf ==
    [size \in Sizes \cup {WideSize} |->
        (DenomX(size[1]) * DenomY(size[2])) \div GCD(DenomX(size[1]), DenomY(size[2]))]

CoordScale(w, h) == ScaleOf[<<w, h>>]

\* cells <<i, j>>: row i (y direction), column j (x direction)
Cells(w, h) == (0..(GridResY(h) - 1)) \X (0..(GridResX(w) - 1))

CellPos(c, w, h) ==
    <<(c[2] * w * CoordScale(w, h)) \div StepsX(w),
      (c[1] * h * CoordScale(w, h)) \div StepsY(h)>>

SamplePos(pt, w, h) == <<pt.x * CoordScale(w, h), pt.y * CoordScale(w, h)>>

\* squared distance between two scaled positions
Dist2(p, q) == (p[1] - q[1]) * (p[1] - q[1]) + (p[2] - q[2]) * (p[2] - q[2])

(***************************************************************************)
(* scipy.interpolate.griddata as called at lines 189-202: a Delaunay       *)
(* triangulation of the sample positions; undefined (nan) outside their    *)
(* convex hull; it raises when the positions are degenerate (all collinear)*)
(***************************************************************************)
NaN == -Pow10(8)

Cross(o, p, q) == (p[1] - o[1]) * (q[2] - o[2]) - (p[2] - o[2]) * (q[1] - o[1])

Triples(n) == { t \in (1..n) \X (1..n) \X (1..n) : t[1] < t[2] /\ t[2] < t[3] }

AllCollinear(points, w, h) ==
    \A t \in Triples(Len(points)) :
        Cross(SamplePos(points[t[1]], w, h), SamplePos(points[t[2]], w, h),
              SamplePos(points[t[3]], w, h)) = 0

\* p lies in the closed triangle a, b, c (not degenerate)
InTriangle(p, a, b, c) ==
    LET total == Cross(a, b, c)
        wa == Cross(p, b, c)
        wb == Cross(p, c, a)
        wc == Cross(p, a, b)
    IN /\ total # 0
       /\ \/ (total > 0 /\ wa >= 0 /\ wb >= 0 /\ wc >= 0)
          \/ (total < 0 /\ wa <= 0 /\ wb <= 0 /\ wc <= 0)

ContainingTriples(p, points, w, h) ==
    { t \in Triples(Len(points)) :
        InTriangle(p, SamplePos(points[t[1]], w, h), SamplePos(points[t[2]], w, h),
                   SamplePos(points[t[3]], w, h)) }

InHull(p, points, w, h) == ContainingTriples(p, points, w, h) # {}

\* the linear interpolant on a triangle of the samples that contains p
BaryValue(p, points, t, w, h) ==
    LET a == SamplePos(points[t[1]], w, h)
        b == SamplePos(points[t[2]], w, h)
        c == SamplePos(points[t[3]], w, h)
        za == points[t[1]].value
    IN za + ((Cross(p, c, a) * (points[t[2]].value - za)
              + Cross(p, a, b) * (points[t[3]].value - za)) \div Cross(a, b, c))

LinearInHull(p, points, w, h) ==
    BaryValue(p, points,
              CHOOSE t \in ContainingTriples(p, points, w, h) :
                  \A u \in ContainingTriples(p, points, w, h) :
                      \/ t[1] < u[1]
                      \/ (t[1] = u[1] /\ t[2] < u[2])
                      \/ (t[1] = u[1] /\ t[2] = u[2] /\ t[3] <= u[3]),
              w, h)

ConstantData(points) == \A i \in 1..Len(points) : points[i].value = points[1].value

\* how far the cubic (Clough-Tocher) surface may leave the linear one inside the
\* hull: an input of the model; constant data is reproduced exactly
CubicDeviations(points) ==
    IF ConstantData(points) THEN {0} ELSE {0 - ValUnit, 0, ValUnit}

\* line 190: method='cubic', fill_value=np.nan
CubicGrid(points, w, h, dev) ==
    [c \in Cells(w, h) |->
        IF InHull(CellPos(c, w, h), points, w, h)
        THEN LinearInHull(CellPos(c, w, h), points, w, h) + dev
        ELSE NaN]

\* line 195: method='linear', fill_value=min_val
LinearGrid(points, w, h, min_val) ==
    [c \in Cells(w, h) |->
        IF InHull(CellPos(c, w, h), points, w, h)
        THEN LinearInHull(CellPos(c, w, h), points, w, h)
        ELSE min_val]

\* the sample nearest to a position (the first of the nearest)
NearestIndex(p, points, w, h) ==
    CHOOSE i \in 1..Len(points) :
        /\ \A k \in 1..Len(points) :
              Dist2(p, SamplePos(points[i], w, h)) <= Dist2(p, SamplePos(points[k], w, h))
        /\ \A k \in 1..(i - 1) :
              Dist2(p, SamplePos(points[k], w, h)) > Dist2(p, SamplePos(points[i], w, h))

\* line 201: method='nearest'
NearestGrid(points, w, h) ==
    [c \in Cells(w, h) |-> points[NearestIndex(CellPos(c, w, h), points, w, h)].value]

HasNaN(g) == \E c \in DOMAIN g : g[c] = NaN

\* grid_z[nan_mask] = other[nan_mask]
FillNaN(g, other) == [c \in DOMAIN g |-> IF g[c] = NaN THEN other[c] ELSE g[c]]

\* mutant: the linear pass runs whether or not the cubic pass left undefined cells
GriddataResult_linearalways(points, w, h, min_val, dev) ==
    LET cubic == CubicGrid(points, w, h, dev)
    IN [grid |-> FillNaN(cubic, LinearGrid(points, w, h, min_val)),
        passes |-> <<"cubic", "linear">>]

\* lines 189-202 when griddata does not raise: the grid and the passes that ran
GriddataResult(points, w, h, min_val, dev) ==
    LET cubic == CubicGrid(points, w, h, dev)
        after_linear == IF HasNaN(cubic)
                        THEN FillNaN(cubic, LinearGrid(points, w, h, min_val))
                        ELSE cubic
        after_nearest == IF HasNaN(after_linear)
                         THEN FillNaN(after_linear, NearestGrid(points, w, h))
                         ELSE after_linear
    IN [grid |-> after_nearest,
        passes |-> <<"cubic">>
                   \o (IF HasNaN(cubic) THEN <<"linear">> ELSE <<>>)
                   \o (IF HasNaN(after_linear) THEN <<"nearest">> ELSE <<>>)]

\* lines 208-209: the surface returned by Rbf is an input of the model, taken as
\* the nearest sample's value shifted by a drawn deviation
RbfDeviations == {0 - ValUnit, ValUnit}
RbfGrid(points, w, h, dev) ==
    [c \in Cells(w, h) |-> points[NearestIndex(CellPos(c, w, h), points, w, h)].value + dev]

(***************************************************************************)
(* Colour maps (lines 18-47, 244-253) and their lookup (line 226)          *)
(***************************************************************************)
Stop(position, r, g, b) == [pos |-> position, rgb |-> <<r, g, b>>]

\* positions in hundredths; colours as the bytes of the hex strings
colormap_rssi ==
    <<Stop(0, 33, 150, 243), Stop(33, 244, 67, 54),
      Stop(66, 255, 193, 7), Stop(100, 76, 175, 80)>>

colormap_speed ==
    <<Stop(0, 244, 67, 54), Stop(33, 255, 193, 7),
      Stop(66, 139, 195, 74), Stop(100, 76, 175, 80)>>

\* the stops are listed from 1.0 down to 0.0
colormap_latency ==
    <<Stop(100, 244, 67, 54), Stop(66, 255, 152, 0),
      Stop(33, 255, 193, 7), Stop(0, 76, 175, 80)>>

get_colormap_for_metric(metric) ==
    IF metric \in {"rssi", "snr"} THEN colormap_rssi
    ELSE IF metric \in {"download", "upload"} THEN colormap_speed
    ELSE IF metric \in {"ping", "jitter"} THEN colormap_latency
    ELSE colormap_rssi

\* LinearSegmentedColormap builds its lookup table on the first call and rejects
\* mapping points that do not start at 0, end at 1 and increase (ValueError)
ColormapUsable(stops) ==
    /\ stops[1].pos = 0
    /\ stops[Len(stops)].pos = 100
    /\ \A i \in 1..(Len(stops) - 1) : stops[i].pos <= stops[i + 1].pos

lut_size == 256

\* entry i (0..255) of the lookup table, as bytes: piecewise linear between stops
LutEntry(stops, i) ==
    IF i = 0 THEN stops[1].rgb
    ELSE IF i = lut_size - 1 THEN stops[Len(stops)].rgb
    ELSE LET k == CHOOSE n \in 2..Len(stops) :
                     /\ stops[n].pos * (lut_size - 1) >= 100 * i
                     /\ \A m \in 2..(n - 1) : stops[m].pos * (lut_size - 1) < 100 * i
             num == 100 * i - stops[k - 1].pos * (lut_size - 1)
             den == (stops[k].pos - stops[k - 1].pos) * (lut_size - 1)
         IN [ch \in 1..3 |->
                stops[k - 1].rgb[ch]
                  + ((stops[k].rgb[ch] - stops[k - 1].rgb[ch]) * num) \div den]

\* lines 215-216 and 222-223, then the index cmap() computes: int(x * 256), 256 -> 255
LutIndex(z, min_val, max_val, metric) ==
    LET clipped == Max2(min_val, Min2(max_val, z))
        numer == IF metric \in {"ping", "jitter"} THEN max_val - clipped
                 ELSE clipped - min_val
    IN Min2(lut_size - 1, (lut_size * numer) \div (max_val - min_val))

\* ColorRamp(normalize(V)) as bytes
ColorOf(z, min_val, max_val, metric) ==
    LutEntry(get_colormap_for_metric(metric), LutIndex(z, min_val, max_val, metric))

(***************************************************************************)
(* HeatmapGenerator._create_advanced_alpha_mask (lines 255-286)            *)
(***************************************************************************)
background_alpha == 20
alpha_floor == 60

RECURSIVE MinDist2(_, _, _, _)
MinDist2(p, points, w, h) ==
    IF Len(points) = 1 THEN Dist2(p, SamplePos(points[1], w, h))
    ELSE Min2(Dist2(p, SamplePos(Head(points), w, h)), MinDist2(p, Tail(points), w, h))

\* max_influence = min(img_width, img_height) / 4, squared, times 16, scaled
Influence2x16(w, h) == Min2(w, h) * Min2(w, h) * CoordScale(w, h) * CoordScale(w, h)

WithinInfluence(p, q, w, h) == 16 * Dist2(p, q) < Influence2x16(w, h)

\* mutant: the floor of 60 inside the influence radius is left out
AlphaAt_nofloor(c, points, w, h) ==
    LET d2x16 == 16 * MinDist2(CellPos(c, w, h), points, w, h)
        r2x16 == Influence2x16(w, h)
    IN IF d2x16 < r2x16
       THEN (255 * 85 * (r2x16 - d2x16)) \div (100 * r2x16)
       ELSE background_alpha

AlphaAt(c, points, w, h) ==
    LET d2x16 == 16 * MinDist2(CellPos(c, w, h), points, w, h)
        r2x16 == Influence2x16(w, h)
    IN IF d2x16 < r2x16
       THEN Max2(alpha_floor, (255 * 85 * (r2x16 - d2x16)) \div (100 * r2x16))
       ELSE background_alpha

\* lines 214-233: the coloured grid with its alpha channel
ColoredGrid(g, points, w, h, min_val, max_val, metric) ==
    [c \in DOMAIN g |->
        LET rgb == ColorOf(g[c], min_val, max_val, metric)
        IN <<rgb[1], rgb[2], rgb[3], AlphaAt(c, points, w, h)>>]

(***************************************************************************)
(* HeatmapGenerator._create_fallback_heatmap (lines 288-341)               *)
(***************************************************************************)
Pixels(w, h) == (0..(w - 1)) \X (0..(h - 1))

\* lines 299-316: the disc colour of a sample
SplatColor(value, min_val, max_val, metric) ==
    LET span == max_val - min_val
        plain == value - min_val
        \* normalized_value * span, after the inversion for latency metrics
        n == IF metric \in {"ping", "jitter"} THEN span - plain ELSE plain
    IN IF span <= 0 THEN <<139, 195, 74>>
       ELSE IF 4 * n >= 3 * span THEN <<76, 175, 80>>
       ELSE IF 2 * n >= span THEN <<139, 195, 74>>
       ELSE IF 4 * n >= span THEN <<255, 193, 7>>
       ELSE <<244, 67, 54>>

SplatRadius(w, h) == Min2(w, h) \div 6

\* lines 324-329: the alpha a sample computes for a pixel of its disc
SplatAlpha(px, pt, radius) ==
    LET d2 == (px[1] - pt.x) * (px[1] - pt.x) + (px[2] - pt.y) * (px[2] - pt.y)
    IN (255 * 7 * Max2(0, radius * radius - d2)) \div (10 * radius * radius)

InDisc(px, pt, radius) ==
    /\ Abs(px[1] - pt.x) <= radius
    /\ Abs(px[2] - pt.y) <= radius
    /\ (px[1] - pt.x) * (px[1] - pt.x) + (px[2] - pt.y) * (px[2] - pt.y) <= radius * radius

\* mutant: a sample's disc overwrites the pixel whatever its current alpha
SplatOne_overwrite(img, pt, w, h, min_val, max_val, metric) ==
    LET radius == SplatRadius(w, h)
        color == SplatColor(pt.value, min_val, max_val, metric)
    IN [px \in DOMAIN img |->
          IF InDisc(px, pt, radius)
          THEN LET alpha == SplatAlpha(px, pt, radius)
               IN <<(color[1] * alpha + img[px][1] * (255 - alpha)) \div 255,
                    (color[2] * alpha + img[px][2] * (255 - alpha)) \div 255,
                    (color[3] * alpha + img[px][3] * (255 - alpha)) \div 255,
                    alpha>>
          ELSE img[px]]

\* lines 319-339: one sample drawn into the pixel array
SplatOne(img, pt, w, h, min_val, max_val, metric) ==
    LET radius == SplatRadius(w, h)
        color == SplatColor(pt.value, min_val, max_val, metric)
    IN [px \in DOMAIN img |->
          IF InDisc(px, pt, radius) /\ SplatAlpha(px, pt, radius) > img[px][4]
          THEN LET alpha == SplatAlpha(px, pt, radius)
               IN <<(color[1] * alpha + img[px][1] * (255 - alpha)) \div 255,
                    (color[2] * alpha + img[px][2] * (255 - alpha)) \div 255,
                    (color[3] * alpha + img[px][3] * (255 - alpha)) \div 255,
                    Max2(img[px][4], alpha)>>
          ELSE img[px]]

RECURSIVE SplatAll(_, _, _, _, _, _, _)
SplatAll(img, points, w, h, min_val, max_val, metric) ==
    IF points = <<>> THEN img
    ELSE SplatAll(SplatOne(img, Head(points), w, h, min_val, max_val, metric),
                  Tail(points), w, h, min_val, max_val, metric)

(***************************************************************************)
(* Rasters (PIL images)                                                    *)
(***************************************************************************)
NoImage == [width |-> 0, height |-> 0, kind |-> "none", data |-> <<>>]

\* mutant: width and height are swapped
TransparentImage_swapped(w, h) ==
    [width |-> h, height |-> w, kind |-> "new",
     data |-> [px \in Pixels(h, w) |-> <<0, 0, 0, 0>>]]

\* line 75: Image.new('RGBA', (width, height), (0, 0, 0, 0))
TransparentImage(w, h) ==
    [width |-> w, height |-> h, kind |-> "new",
     data |-> [px \in Pixels(w, h) |-> <<0, 0, 0, 0>>]]

\* lines 292 and 341: the pixel array of the fallback, as an image
SplatImage(points, w, h, min_val, max_val, metric) ==
    [width |-> w, height |-> h, kind |-> "splat",
     data |-> SplatAll([px \in Pixels(w, h) |-> <<0, 0, 0, 0>>],
                       points, w, h, min_val, max_val, metric)]

\* mutant: the coloured grid is returned at its own size, without the resize
ResizedImage_gridsize(rgba, w, h) ==
    [width |-> GridResX(w), height |-> GridResY(h), kind |-> "resized", data |-> rgba]

\* lines 236-239: the coloured grid resampled (LANCZOS) to the requested size;
\* data keeps the grid the resampling starts from
ResizedImage(rgba, w, h) ==
    [width |-> w, height |-> h, kind |-> "resized", data |-> rgba]

(***************************************************************************)
(* HeatmapGenerator.generate as a state machine                            *)
(***************************************************************************)
\* surveys whose latencies are 0, exactly 999, above 999 and just below 999, and
\* whose points observe the emitter a alone, b alone, or both
LatencySurveys ==
    { <<Point(2, 2, <<Net("a", -60)>>, Iperf(50 * ValUnit, 10 * ValUnit, 0, ValUnit \div 2)),
        Point(3, 2, <<Net("b", -70)>>,
              Iperf(50 * ValUnit, 10 * ValUnit, latency_cutoff * ValUnit, ValUnit \div 2)),
        Point(2, 3, <<Net("b", -80), Net("a", -55)>>,
              Iperf(50 * ValUnit, 10 * ValUnit, 1200 * ValUnit, ValUnit \div 2)),
        Point(3, 4, <<Net("a", -65)>>, SteadyIperf),
        Point(6, 6, <<Net("a", -90), Net("b", -50)>>, SteadyIperf),
        Point(5, 1, <<Net("a", -60)>>, SteadyIperf)>>,
      <<Point(2, 2, <<Net("a", -60)>>,
              Iperf(50 * ValUnit, 10 * ValUnit, latency_cutoff * ValUnit - 1, ValUnit \div 2)),
        Point(3, 2, <<Net("b", -70)>>,
              Iperf(50 * ValUnit, 10 * ValUnit, latency_cutoff * ValUnit, ValUnit \div 2))>> }

HeatIdle ==
    /\ h_points = <<>> /\ h_metric = "" /\ h_target = "" /\ h_width = 0
    /\ h_height = 0 /\ h_pc = "idle" /\ h_samples = <<>> /\ h_range = <<0, 0>>
    /\ h_grid = <<>> /\ h_rgba = <<>> /\ h_trace = <<>> /\ h_image = NoImage
    /\ h_raised = FALSE

HeatInit ==
    /\ \/ /\ h_points \in SeqsUpTo(HeatPool, MaxHeatPoints) \cup CornerSurveys
                               \cup LatencySurveys
          /\ h_metric \in Metrics
          /\ h_target \in Targets
          /\ \E size \in Sizes : h_width = size[1] /\ h_height = size[2]
       \/ /\ h_points \in WideSurveys
          /\ h_metric = "rssi"
          /\ h_target = ""
          /\ h_width = WideSize[1] /\ h_height = WideSize[2]
    /\ h_pc = "start"
    /\ h_samples = <<>>
    /\ h_range = <<0, 0>>
    /\ h_grid = <<>>
    /\ h_rgba = <<>>
    /\ h_trace = <<>>
    /\ h_image = NoImage
    /\ h_raised = FALSE

\* generate, lines 62-83: extract the samples; fewer than 3 give a transparent
\* raster, otherwise the metric's range is determined and _generate_heatmap entered
GenerateEntry ==
    /\ h_pc = "start"
    /\ LET points == ExtractPoints(h_points, h_target, h_metric)
       IN /\ h_samples' = points
          /\ IF Len(points) < 3
             THEN /\ h_image' = TransparentImage(h_width, h_height)
                  /\ h_pc' = "done"
                  /\ UNCHANGED h_range
             ELSE /\ h_range' = get_metric_ranges(points, h_metric)
                  /\ h_pc' = "heatmap"
                  /\ UNCHANGED h_image
    /\ UNCHANGED <<h_points, h_metric, h_target, h_width, h_height, h_grid, h_rgba,
                   h_trace, h_raised>>
    /\ UNCHANGED <<dist_vars, loc_vars>>

\* _generate_heatmap, lines 173-185: the range is made valid, the grid laid out
PrepareGrid ==
    /\ h_pc = "heatmap"
    /\ h_range' = ValidRange(h_range)
    /\ h_pc' = "griddata"
    /\ UNCHANGED <<h_points, h_metric, h_target, h_width, h_height, h_samples, h_grid,
                   h_rgba, h_trace, h_image, h_raised>>
    /\ UNCHANGED <<dist_vars, loc_vars>>

\* lines 187-205: the griddata passes; a failure is caught and leads to Rbf
GriddataStage ==
    /\ h_pc = "griddata"
    /\ IF AllCollinear(h_samples, h_width, h_height)
       THEN /\ h_pc' = "rbf"
            /\ h_trace' = h_trace \o <<"cubic">>
            /\ UNCHANGED h_grid
       ELSE \E dev \in CubicDeviations(h_samples) :
               LET res == GriddataResult(h_samples, h_width, h_height, h_range[1], dev)
               IN /\ h_grid' = res.grid
                  /\ h_trace' = h_trace \o res.passes
                  /\ h_pc' = "colorize"
    /\ UNCHANGED <<h_points, h_metric, h_target, h_width, h_height, h_samples, h_range,
                   h_rgba, h_image, h_raised>>
    /\ UNCHANGED <<dist_vars, loc_vars>>

\* lines 206-211: radial-basis interpolation; a failure is caught as well
RbfStage ==
    /\ h_pc = "rbf"
    /\ h_trace' = h_trace \o <<"rbf">>
    /\ \E ok \in BOOLEAN :
          IF ok
          THEN \E dev \in RbfDeviations :
                  /\ h_grid' = RbfGrid(h_samples, h_width, h_height, dev)
                  /\ h_pc' = "colorize"
          ELSE /\ h_pc' = "fallback"
               /\ UNCHANGED h_grid
    /\ UNCHANGED <<h_points, h_metric, h_target, h_width, h_height, h_samples, h_range,
                   h_rgba, h_image, h_raised>>
    /\ UNCHANGED <<dist_vars, loc_vars>>

\* line 212: the disc-splatting fallback returns the raster
FallbackStage ==
    /\ h_pc = "fallback"
    /\ h_trace' = h_trace \o <<"splat">>
    /\ h_image' = SplatImage(h_samples, h_width, h_height, h_range[1], h_range[2], h_metric)
    /\ h_pc' = "done"
    /\ UNCHANGED <<h_points, h_metric, h_target, h_width, h_height, h_samples, h_range,
                   h_grid, h_rgba, h_raised>>
    /\ UNCHANGED <<dist_vars, loc_vars>>

\* lines 214-233: normalise, colour-map, alpha mask; the colour map's lookup raises
\* when its mapping points are unusable, and nothing here catches it
Colorize ==
    /\ h_pc = "colorize"
    /\ IF ColormapUsable(get_colormap_for_metric(h_metric))
       THEN /\ h_rgba' = ColoredGrid(h_grid, h_samples, h_width, h_height,
                                     h_range[1], h_range[2], h_metric)
            /\ h_pc' = "resize"
            /\ UNCHANGED h_raised
       ELSE /\ h_raised' = TRUE
            /\ h_pc' = "raised"
            /\ UNCHANGED h_rgba
    /\ UNCHANGED <<h_points, h_metric, h_target, h_width, h_height, h_samples, h_range,
                   h_grid, h_trace, h_image>>
    /\ UNCHANGED <<dist_vars, loc_vars>>

\* lines 235-242: the image is built and resampled to the requested size
Resize ==
    /\ h_pc = "resize"
    /\ h_image' = ResizedImage(h_rgba, h_width, h_height)
    /\ h_pc' = "done"
    /\ UNCHANGED <<h_points, h_metric, h_target, h_width, h_height, h_samples, h_range,
                   h_grid, h_rgba, h_trace, h_raised>>
    /\ UNCHANGED <<dist_vars, loc_vars>>

(***************************************************************************)
(* Specifications                                                          *)
(***************************************************************************)
Init == LocInit /\ DistIdle /\ HeatIdle

Next ==
    \/ StartPass
    \/ GroupPoint
    \/ SkipAP
    \/ BeginSolve
    \/ DirectCall
    \/ ListCall
    \/ ScoreCall
    \/ CoverageCall
    \/ ValidateCall
    \/ ValidateReturned
    \/ RunSeed
    \/ ValidateAndEmit
    \/ SolveRaises
    \/ FinishPass

Spec == Init /\ [][Next]_vars

InitDist == DistInit /\ LocIdle /\ HeatIdle
DistNext == Convert
SpecDist == InitDist /\ [][DistNext]_vars


InitHeat == HeatInit /\ DistIdle /\ LocIdle

HeatNext ==
    \/ GenerateEntry
    \/ PrepareGrid
    \/ GriddataStage
    \/ RbfStage
    \/ FallbackStage
    \/ Colorize
    \/ Resize

SpecHeat == InitHeat /\ [][HeatNext]_vars

(***************************************************************************)
(* Claims                                                                  *)
(***************************************************************************)

\* C1: the mapping returned by estimate_all_aps never holds an entry for an
\* emitter with fewer than 3 observations across all survey points, every
\* emitted estimate has measurement_count >= 3, and estimate_ap_position
\* returns no position when it is given fewer than 3 measurements.
C1_NoEstimateBelowThree ==
    /\ \A b \in BSSIDs :
          estimated_aps[b].present =>
             /\ Len(MeasurementsOf(survey_points, b)) >= 3
             /\ estimated_aps[b].measurement_count >= 3
    /\ (loc_pc = "returned" /\ Len(cur.given) < 3) => ~cur.returned.some

\* a finished pass that skipped an observed emitter and estimated another
C1_Witness ==
    /\ loc_pc = "done"
    /\ \E b \in BSSIDs :
          /\ outcome[b] = "skipped"
          /\ Len(MeasurementsOf(survey_points, b)) \in 1..2
          /\ ~estimated_aps[b].present
    /\ \E b \in BSSIDs : estimated_aps[b].present

\* C2: _calculate_confidence returns a value in [0,1], exactly 0 below 3
\* measurements; the confidence of every emitted estimate is in [0,1].
C2_ConfidenceInUnitInterval ==
    /\ \A b \in BSSIDs :
          estimated_aps[b].present =>
             (estimated_aps[b].confidence >= 0 /\ estimated_aps[b].confidence <= ConfUnit)
    /\ loc_pc = "scored" =>
          /\ cur.score >= 0 /\ cur.score <= ConfUnit
          /\ Len(cur.given) < 3 => cur.score = 0

\* an emitted estimate whose confidence lies strictly inside the interval
C2_Witness ==
    \E b \in BSSIDs :
        /\ estimated_aps[b].present
        /\ estimated_aps[b].confidence > 0
        /\ estimated_aps[b].confidence < ConfUnit

\* C3: a failure while solving one emitter (no seed converges, validation
\* rejects, an exception) never leaves the pass: the exception does not reach
\* the caller of estimate_all_aps, every emitter with >= 3 measurements is
\* attempted, and the mapping holds exactly the emitters whose solve succeeded.
C3_FailureIsLocal ==
    /\ loc_pc = "raised" => cur.mode \in {"direct", "list"}
    /\ (loc_pc = "done" /\ survey_points # <<>> /\ pixels_per_meter # 0) =>
          \A b \in BSSIDs :
             /\ Len(MeasurementsOf(survey_points, b)) >= 3 =>
                   outcome[b] \in {"estimated", "failed", "exception"}
             /\ estimated_aps[b].present <=> outcome[b] = "estimated"

\* a finished pass in which an emitter raised and a later one was estimated
C3_Witness ==
    /\ loc_pc = "done"
    /\ \E b1, b2 \in BSSIDs :
          /\ outcome[b1] \in {"exception", "failed"}
          /\ outcome[b2] = "estimated"
          /\ IndexOf(ap_measurements, b1) < IndexOf(ap_measurements, b2)

\* C7: for fixed model parameters _rssi_to_distance_meters is monotonically
\* non-increasing in the signal level, across the reference level and both clamps.
C7_DistanceMonotone ==
    (d_pc = "done" /\ d_s1 <= d_s2) => d_out1 >= d_out2

\* two levels on either side of the reference level, with distinct distances
C7_Witness ==
    /\ d_pc = "done"
    /\ d_s1 < reference_rssi /\ d_s2 >= reference_rssi
    /\ d_out1 > d_out2

\* C8: _rssi_to_distance_meters returns the reference distance at or above the
\* reference signal, and always a distance within [0.5, 150] metres.
C8_DistanceBounded ==
    d_pc = "done" =>
       /\ d_out1 >= min_distance /\ d_out1 <= max_distance_m
       /\ d_s1 >= reference_rssi => d_out1 = reference_distance

\* the weakest signal, where the upper clamp is what bounds the distance
C8_Witness ==
    /\ d_pc = "done"
    /\ d_s1 = SignalMin
    /\ d_out1 = max_distance_m
    /\ (reference_distance * TenPow(reference_rssi - d_s1)) \div DistUnit > max_distance_m

\* the samples of a generation all carry one metric value
SameValue == \A i \in 1..Len(h_samples) : h_samples[i].value = h_samples[1].value

\* the samples of a generation lie at pairwise distinct positions
DistinctPositions ==
    \A i, j \in 1..Len(h_samples) :
        i # j => <<h_samples[i].x, h_samples[i].y>> # <<h_samples[j].x, h_samples[j].y>>

\* C4: when fewer than 3 survey points yield a usable metric value (zero
\* included), generate returns without raising a raster of exactly the requested
\* width and height whose every pixel is (0,0,0,0).
C4_TransparentBelowThree ==
    (h_pc \notin {"idle", "start"} /\ Len(h_samples) < 3) =>
       /\ h_pc = "done"
       /\ ~h_raised
       /\ h_image.width = h_width
       /\ h_image.height = h_height
       /\ DOMAIN h_image.data = Pixels(h_width, h_height)
       /\ \A px \in Pixels(h_width, h_height) : h_image.data[px] = <<0, 0, 0, 0>>

\* three survey points of which only one or two carry the metric, on a raster
\* that is not square
C4_Witness ==
    /\ h_pc = "done"
    /\ Len(h_points) = 3
    /\ Len(h_samples) \in 1..2
    /\ h_width # h_height
    /\ h_image.kind = "new"

\* C5: for every metric and >= 3 samples, the range used to normalise the
\* raster contains the smallest and the largest contributing sample value, so
\* that no sample is clipped.
C5_RangeContainsSamples ==
    (h_pc \notin {"idle", "start", "heatmap"} /\ Len(h_samples) >= 3) =>
       /\ h_range[1] <= SeqMin(Values(h_samples))
       /\ SeqMax(Values(h_samples)) <= h_range[2]

\* C6: when all samples carry the same metric value, generation does not raise
\* and the range used to normalise is at least 1 unit wide.
C6_DegenerateRangeWidened ==
    (h_pc \notin {"idle", "start", "heatmap"} /\ Len(h_samples) >= 3 /\ SameValue) =>
       /\ ~h_raised
       /\ h_range[2] - h_range[1] >= ValUnit

\* C9: with 3 samples at distinct positions that all carry the value V, every
\* grid cell within the influence radius of all three samples is coloured
\* ColorRamp(normalize(V)), and every cell farther than the influence radius
\* from all samples gets the background alpha 20.
C9_UniformSamplesUniformColour ==
    (h_pc \in {"resize", "done"} /\ h_rgba # <<>> /\ Len(h_samples) = 3
       /\ SameValue /\ DistinctPositions) =>
       \A c \in Cells(h_width, h_height) :
          LET p == CellPos(c, h_width, h_height)
              near == \A i \in 1..3 :
                         WithinInfluence(p, SamplePos(h_samples[i], h_width, h_height),
                                         h_width, h_height)
              far == \A i \in 1..3 :
                        16 * Dist2(p, SamplePos(h_samples[i], h_width, h_height))
                           > Influence2x16(h_width, h_height)
              ramp == ColorOf(h_samples[1].value, h_range[1], h_range[2], h_metric)
          IN /\ near => <<h_rgba[c][1], h_rgba[c][2], h_rgba[c][3]>> = <<ramp[1], ramp[2], ramp[3]>>
             /\ far => h_rgba[c][4] = background_alpha

\* C10: with >= 3 usable samples generate returns a raster for every metric
\* and never propagates an exception: interpolation failures are absorbed by
\* the fallback chain and no later step raises.
C10_NeverRaises ==
    (h_pc \notin {"idle", "start"} /\ Len(h_samples) >= 3) =>
       /\ ~h_raised
       /\ h_pc # "raised"
       /\ h_pc = "done" => h_image.kind \in {"resized", "splat"}

\* the position, on a colour map, of its 'excellent' colour #4CAF50
ExcellentPos(stops) ==
    stops[CHOOSE i \in 1..Len(stops) : stops[i].rgb = <<76, 175, 80>>].pos

\* how far from the 'excellent' end the lookup of raw value z lands on the ramp
RampDistance(z, min_val, max_val, metric) ==
    Abs(100 * LutIndex(z, min_val, max_val, metric)
          - (lut_size - 1) * ExcellentPos(get_colormap_for_metric(metric)))

\* the four disc colours of the fallback, ranked from 'malo' (0) to 'excelente' (3)
SplatRank(rgb) ==
    IF rgb = <<76, 175, 80>> THEN 3
    ELSE IF rgb = <<139, 195, 74>> THEN 2
    ELSE IF rgb = <<255, 193, 7>> THEN 1
    ELSE 0

\* raw value z1 is the better one for the metric: lower for ping and jitter
BetterRaw(z1, z2, metric) ==
    IF metric \in {"ping", "jitter"} THEN z1 < z2 ELSE z1 > z2

\* C11: for ping and jitter a lower raw value is drawn nearer the 'excellent'
\* end of the colour ramp than a higher one, for every other metric a higher
\* raw value is, both on the interpolated path (colour-map lookup of the grid)
\* and in the disc-splat fallback.
C11_BetterValueNearerExcellent ==
    /\ (h_pc \in {"resize", "raised"} /\ Len(h_samples) >= 3) =>
          /\ ~h_raised
          /\ \A c1, c2 \in DOMAIN h_grid :
                BetterRaw(h_grid[c1], h_grid[c2], h_metric) =>
                   RampDistance(h_grid[c1], h_range[1], h_range[2], h_metric)
                      <= RampDistance(h_grid[c2], h_range[1], h_range[2], h_metric)
    /\ (h_pc = "done" /\ h_image.kind = "splat") =>
          \A i, j \in 1..Len(h_samples) :
             BetterRaw(h_samples[i].value, h_samples[j].value, h_metric) =>
                SplatRank(SplatColor(h_samples[i].value, h_range[1], h_range[2], h_metric))
                   >= SplatRank(SplatColor(h_samples[j].value, h_range[1], h_range[2], h_metric))

\* C12: the jittered initial positions are reproducible: a solve of a given
\* measurement set uses the same 5 initial positions whatever the process has
\* solved before, i.e. the ones a solve of that set uses when nothing was
\* solved before it.
C12_SeedingReproducible ==
    (cur.mode = "direct" /\ loc_pc \in {"optimize", "validate", "returned", "raised"}
       /\ Len(cur.given) >= 3) =>
       /\ Len(cur.initial_positions) = NumSeeds
       /\ cur.initial_positions = InitialPositions(cur.measurements, 0)

\* the survey input with the observations of every emitter but b removed
OnlyEmitter(pts, b) ==
    [i \in 1..Len(pts) |->
        [pts[i] EXCEPT !.networks = SelectSeq(pts[i].networks, LAMBDA n : n.bssid = b)]]

\* what a pass over the observations of emitter b alone works with
AloneMeasurements(b) == MeasurementsOf(OnlyEmitter(survey_points, b), b)

\* C13: estimation is independent per emitter: the grouped measurements of an
\* emitter, its filtered set, its distances, its confidence and whether it is
\* skipped are those of a pass over the observations of that emitter alone,
\* and so is everything else its solve reads (its initial positions): no
\* state written while another emitter was processed is read.
C13_EmitterIndependent ==
    /\ (cur.mode = "pass" /\ loc_pc \in {"optimize", "validate"}) =>
          /\ cur.given = AloneMeasurements(cur.bssid)
          /\ cur.measurements = FilterOutliers(AloneMeasurements(cur.bssid))
          /\ cur.distances = Distances(FilterOutliers(AloneMeasurements(cur.bssid)),
                                       pixels_per_meter)
          /\ cur.initial_positions
                = InitialPositions(FilterOutliers(AloneMeasurements(cur.bssid)), 0)
    /\ \A b \in BSSIDs :
          /\ outcome[b] = "skipped" <=>
                (loc_pc \in {"loop", "optimize", "validate", "done"}
                   /\ IndexOf(ap_measurements, b) \in 1..(ap_idx - 1)
                   /\ Len(AloneMeasurements(b)) < 3)
          /\ estimated_aps[b].present =>
                estimated_aps[b].confidence
                   = calculate_confidence(AloneMeasurements(b), pixels_per_meter)

\* a is b with some elements removed, the order kept
RECURSIVE IsSubsequence(_, _)
IsSubsequence(a, b) ==
    IF a = <<>> THEN TRUE
    ELSE IF b = <<>> THEN FALSE
    ELSE IF Head(a) = Head(b) THEN IsSubsequence(Tail(a), Tail(b))
    ELSE IsSubsequence(a, Tail(b))

C15_DistancesWithinLimits ==
    (cur.mode \in {"pass", "direct"} /\ loc_pc \in {"optimize", "validate", "returned"}
       /\ Len(cur.given) >= 3) =>
       /\ Len(cur.distances) = Len(cur.measurements)
       /\ Len(cur.distances) = Len(Positions(cur.measurements))
       /\ \A i \in 1..Len(cur.distances) :
             LET unclamped == rssi_to_distance_meters(cur.measurements[i].rssi)
                                 * pixels_per_meter
             IN /\ cur.distances[i] >= 10 * DistUnit
                /\ cur.distances[i] <= 1000 * DistUnit
                /\ (unclamped >= 10 * DistUnit /\ unclamped <= 1000 * DistUnit) =>
                      cur.distances[i] = unclamped

\* a solve in which the upper limit cuts one distance and leaves another alone
C15_Witness ==
    /\ loc_pc = "optimize"
    /\ \E i, j \in 1..Len(cur.distances) :
          /\ cur.distances[i] = max_distance_pixels
          /\ rssi_to_distance_meters(cur.measurements[i].rssi) * pixels_per_meter
                > max_distance_pixels
          /\ cur.distances[j] < max_distance_pixels
          /\ cur.distances[j] > min_distance_pixels

\* C16: across the optimizer runs of a solve the result kept is a converged
\* run whose objective value is the least among the converged runs; runs that
\* fail or raise never replace it; when no run converges, estimate_ap_position
\* returns no position.
C16_BestConvergedKept ==
    (cur.mode \in {"pass", "direct"} /\ loc_pc \in {"optimize", "validate", "returned"}
       /\ Len(cur.given) >= 3) =>
       /\ cur.best.found <=> cur.converged # {}
       /\ cur.best.found =>
             /\ cur.best.success
             /\ cur.best.fun \in cur.converged
             /\ \A f \in cur.converged : cur.best.fun <= f
       /\ (loc_pc = "returned" /\ cur.converged = {}) => ~cur.returned.some

\* all seeds were run, at least two of them converged with different objective
\* values, and the smaller one is kept
C16_Witness ==
    /\ loc_pc = "validate"
    /\ cur.seed = NumSeeds
    /\ Cardinality(cur.converged) >= 2
    /\ cur.best.found
    /\ cur.best.fun = 0

\* the largest squared raster distance from x to the positions
MaxDistance2(x, positions) ==
    SeqMax([i \in 1..Len(positions) |->
               (x[1] - positions[i][1]) * (x[1] - positions[i][1])
                 + (x[2] - positions[i][2]) * (x[2] - positions[i][2])])

\* C17: estimate_ap_position rejects the best solution (returns no position)
\* if its largest distance to a retained measurement position, in physical
\* units (raster distance / scale), exceeds 200, and returns it otherwise, a
\* largest distance of exactly 200 included.
C17_SanityBound ==
    (cur.mode = "direct" /\ loc_pc = "returned" /\ cur.best.found) =>
       LET limit == max_distance_limit * pixels_per_meter
           far == MaxDistance2(cur.best.x, Positions(cur.measurements)) > limit * limit
       IN /\ far => ~cur.returned.some
          /\ ~far => (cur.returned.some /\ cur.returned.x = cur.best.x)

\* C18: the confidence stored in an emitted estimate is the confidence
\* computed over the outlier-filtered measurements of the emitter, the set the
\* optimizer used, whenever the filter dropped measurements.
C18_ConfidenceOverFilteredSet ==
    \A b \in BSSIDs :
       (estimated_aps[b].present
          /\ FilterOutliers(MeasurementsOf(survey_points, b)) # MeasurementsOf(survey_points, b)) =>
          estimated_aps[b].confidence
             = calculate_confidence(FilterOutliers(MeasurementsOf(survey_points, b)),
                                    pixels_per_meter)

\* stage s of the interpolation chain ran in this generation
Ran(s) == \E i \in 1..Len(h_trace) : h_trace[i] = s

\* some grid cell lies outside the convex hull of the samples, so that the
\* cubic pass leaves it undefined
CubicLeavesUndefined ==
    \E c \in Cells(h_width, h_height) :
        ~InHull(CellPos(c, h_width, h_height), h_samples, h_width, h_height)

\* C19: in _generate_heatmap the linear pass runs only if the cubic pass left
\* undefined cells, the radial-basis interpolation only if the griddata stage
\* raised, disc-splatting only if the radial-basis stage raised as well, and
\* when a stage succeeds with no undefined cells no later stage runs.
C19_FallbackChainOrder ==
    (h_pc \notin {"idle", "start"} /\ Len(h_samples) >= 3) =>
       LET raised_in_griddata == AllCollinear(h_samples, h_width, h_height)
       IN /\ h_trace \in { <<>>, <<"cubic">>, <<"cubic", "linear">>,
                           <<"cubic", "linear", "nearest">>,
                           <<"cubic", "rbf">>, <<"cubic", "rbf", "splat">> }
          /\ Ran("linear") => (~raised_in_griddata /\ CubicLeavesUndefined)
          /\ Ran("rbf") => raised_in_griddata
          /\ Ran("splat") => (raised_in_griddata /\ Ran("rbf") /\ h_grid = <<>>)
          /\ (Ran("cubic") /\ ~raised_in_griddata /\ ~CubicLeavesUndefined) =>
                h_trace = <<"cubic">>
          /\ (Ran("rbf") /\ h_grid # <<>>) => ~Ran("splat")

\* the cubic pass covered every cell of the grid and nothing ran after it
C19_Witness ==
    /\ h_pc = "colorize"
    /\ Len(h_samples) = 4
    /\ h_trace = <<"cubic">>
    /\ h_grid # <<>>

\* C20: in the primary interpolation path every grid cell still undefined
\* after the cubic and linear passes (a cell outside the convex hull of the
\* samples) is filled with the value of its nearest sample by the
\* nearest-neighbour pass; none is left undefined or gets a value that is not
\* derived from the samples.
C20_NearestFillsUndefined ==
    (h_pc \in {"colorize", "resize", "raised", "done"} /\ Len(h_samples) >= 3
       /\ Ran("cubic") /\ ~Ran("rbf")) =>
       \A c \in Cells(h_width, h_height) :
          /\ h_grid[c] # NaN
          /\ ~InHull(CellPos(c, h_width, h_height), h_samples, h_width, h_height) =>
                h_grid[c] = h_samples[NearestIndex(CellPos(c, h_width, h_height),
                                                   h_samples, h_width, h_height)].value

\* squared distance (times 16, scaled) from a grid cell to its nearest sample
NearestDist2x16(c) ==
    LET p == CellPos(c, h_width, h_height)
        ds == {16 * Dist2(p, SamplePos(h_samples[i], h_width, h_height)) :
                 i \in 1..Len(h_samples)}
    IN CHOOSE d \in ds : \A e \in ds : d <= e

\* C21: for every grid cell with distance d to its nearest sample and
\* influence radius R = min(width, height) / 4, alpha is the background value
\* 20 if d >= R and otherwise max(60, floor(255 * 0.85 * (1 - (d/R)^2))); so
\* every alpha is 20 or within [60, 216], never 0, and within the radius it
\* is non-increasing in d.
C21_AlphaMask ==
    h_pc = "resize" =>
       LET R2 == Influence2x16(h_width, h_height)
           d2 == [c \in Cells(h_width, h_height) |-> NearestDist2x16(c)]
           \* floor(255 * 0.85 * (1 - (d/R)^2))
           falloff == [c \in Cells(h_width, h_height) |->
                         (255 * 85 * (R2 - d2[c])) \div (100 * R2)]
       IN /\ \A c \in Cells(h_width, h_height) :
                LET alpha == h_rgba[c][4]
                IN /\ d2[c] >= R2 => alpha = 20
                   /\ d2[c] < R2 => alpha = IF falloff[c] < 60 THEN 60 ELSE falloff[c]
                   /\ alpha = 20 \/ alpha \in 60..216
                   /\ alpha # 0
          /\ \A c1, c2 \in {c \in Cells(h_width, h_height) : d2[c] < R2} :
                d2[c1] <= d2[c2] => h_rgba[c1][4] >= h_rgba[c2][4]

\* a grid holding a cell on the floor of 60 whose quadratic falloff lies below
\* it, a cell above the floor and a background cell
C21_Witness ==
    /\ h_pc = "resize"
    /\ LET R2 == Influence2x16(h_width, h_height)
       IN /\ \E c \in Cells(h_width, h_height) :
                /\ NearestDist2x16(c) < R2
                /\ 255 * 85 * (R2 - NearestDist2x16(c)) < 60 * 100 * R2
                /\ h_rgba[c][4] = 60
          /\ \E c \in Cells(h_width, h_height) :
                NearestDist2x16(c) < R2 /\ h_rgba[c][4] > 60
          /\ \E c \in Cells(h_width, h_height) :
                NearestDist2x16(c) >= R2 /\ h_rgba[c][4] = 20

\* the survey points that contribute a sample, as the extraction rule states it
Observes(pt, b) == \E n \in 1..Len(pt.networks) : pt.networks[n].bssid = b

ContributingPoints ==
    {i \in 1..Len(h_points) :
        IF h_metric = "ping"
        THEN /\ h_points[i].iperf_results.present
             /\ h_points[i].iperf_results.latency # 0
             /\ h_points[i].iperf_results.latency < 999 * ValUnit
        ELSE IF h_target # "" THEN Observes(h_points[i], h_target)
             ELSE h_points[i].networks # <<>>}

\* the network whose value a signal metric takes at a survey point
SourceNetworks(pt) ==
    IF h_target # ""
    THEN {n \in 1..Len(pt.networks) : pt.networks[n].bssid = h_target}
    ELSE {n \in 1..Len(pt.networks) :
            \A k \in 1..Len(pt.networks) : pt.networks[n].signal >= pt.networks[k].signal}

\* C22: for the signal metrics, with a target emitter a survey point
\* contributes a sample iff it observed that emitter and the sample carries
\* that emitter's value; with no target every point with at least one observed
\* emitter contributes the value of its strongest emitter. For ping a point
\* whose latency is missing, 0 or >= 999 contributes no sample.
C22_SampleExtraction ==
    (h_pc # "start" /\ h_pc # "idle" /\ h_metric \in {"rssi", "snr", "ping"}) =>
       /\ Len(h_samples) = Cardinality(ContributingPoints)
       /\ \A k \in 1..Len(h_samples) :
             LET i == CHOOSE j \in ContributingPoints :
                         Cardinality({m \in ContributingPoints : m <= j}) = k
                 pt == h_points[i]
             IN /\ h_samples[k].x = pt.x /\ h_samples[k].y = pt.y
                /\ h_metric = "ping" => h_samples[k].value = pt.iperf_results.latency
                /\ h_metric = "rssi" =>
                      \E n \in SourceNetworks(pt) :
                         h_samples[k].value = pt.networks[n].signal * ValUnit
                /\ h_metric = "snr" =>
                      \E n \in SourceNetworks(pt) :
                         h_samples[k].value = pt.networks[n].snr * ValUnit

\* an extraction for the target emitter a from a survey holding a point that
\* observed b alone, which gives no sample, and a point that lists a second
C22_Witness ==
    /\ h_pc = "heatmap"
    /\ h_metric = "rssi"
    /\ h_target = "a"
    /\ Len(h_samples) < Len(h_points)
    /\ \E i \in 1..Len(h_points) :
          h_points[i].networks # <<>> /\ ~Observes(h_points[i], "a")
    /\ \E i \in 1..Len(h_points) :
          /\ Len(h_points[i].networks) = 2
          /\ h_points[i].networks[2].bssid = "a"
          /\ \E k \in 1..Len(h_samples) :
                /\ h_samples[k].x = h_points[i].x /\ h_samples[k].y = h_points[i].y
                /\ h_samples[k].value = h_points[i].networks[2].signal * ValUnit

\* the distances (1/100 raster unit) a coverage call has to consider: those of
\* the survey's entries for the emitter with a signal of at least -85
CoverageDistances ==
    LET ms == NetworkSamples(survey_points, cur.bssid)
    IN [i \in {j \in 1..Len(ms) : ms[j].rssi >= -85} |->
           ISqrt(PixelDist2(cur.position.x, ms[i].position) * RadUnit * RadUnit)]

\* the k-th smallest value of a function with a finite domain, k from 1
OrderStatistic(f, k) ==
    CHOOSE v \in {f[i] : i \in DOMAIN f} :
        /\ Cardinality({i \in DOMAIN f : f[i] < v}) < k
        /\ Cardinality({i \in DOMAIN f : f[i] <= v}) >= k

\* C23: get_coverage_radius considers only the samples of the given emitter
\* with signal >= -85 and returns the 90th percentile of their distances to
\* the position clamped into [20, 300]; with no such sample it returns 50; the
\* radius returned is within [20, 300] for every input.
C23_CoverageRadius ==
    cur.mode = "coverage" =>
       /\ cur.radius >= 20 * RadUnit /\ cur.radius <= 300 * RadUnit
       /\ cur.position.some =>
             LET d == CoverageDistances
                 n == Cardinality(DOMAIN d)
             IN IF n = 0 THEN cur.radius = 50 * RadUnit
                ELSE LET below == OrderStatistic(d, (9 * (n - 1)) \div 10 + 1)
                         above == OrderStatistic(d, Min2((9 * (n - 1)) \div 10 + 2, n))
                         p90 == below + (((9 * (n - 1)) % 10) * (above - below)) \div 10
                     IN cur.radius = IF p90 < 20 * RadUnit THEN 20 * RadUnit
                                     ELSE IF p90 > 300 * RadUnit THEN 300 * RadUnit
                                     ELSE p90

\* a call for an emitter that has a sample below -85 left out and samples at
\* two different distances, whose percentile lies strictly between them and
\* strictly inside the clamp
C23_Witness ==
    /\ cur.mode = "coverage"
    /\ cur.position.some
    /\ \E i \in 1..Len(NetworkSamples(survey_points, cur.bssid)) :
          NetworkSamples(survey_points, cur.bssid)[i].rssi < -85
    /\ \E i, j \in DOMAIN CoverageDistances :
          /\ CoverageDistances[i] < cur.radius
          /\ cur.radius < CoverageDistances[j]
    /\ cur.radius > 20 * RadUnit /\ cur.radius < 300 * RadUnit

\* the survey's entries for the emitter of the current call: pairs of a point
\* index and a network index
EmitterEntries ==
    {e \in (1..Len(survey_points)) \X (1..2) :
        /\ e[2] <= Len(survey_points[e[1]].networks)
        /\ survey_points[e[1]].networks[e[2]].bssid = cur.bssid}

EntryDist2(e) ==
    PixelDist2(cur.position.x, <<survey_points[e[1]].x, survey_points[e[1]].y>>)

\* |expected - actual| for one entry, in ErrUnit
EntryError(e) ==
    Abs(expected_rssi(EntryDist2(e), pixels_per_meter)
           - survey_points[e[1]].networks[e[2]].signal * ErrUnit)

RECURSIVE TotalError(_)
TotalError(S) ==
    IF S = {} THEN 0
    ELSE LET e == CHOOSE x \in S : TRUE IN EntryError(e) + TotalError(S \ {e})

\* C24: validate_position considers exactly the samples referencing the given
\* emitter; it reports invalid when there is none, when the mean absolute
\* difference between expected and actual signal exceeds 25, or when the
\* largest sample distance exceeds 150 length-units, and valid in every other
\* case; the error threshold is tested before the distance ceiling.
C24_ValidatePosition ==
    loc_pc = "validated" =>
       LET S == EmitterEntries
           errorHigh == TotalError(S) > 25 * ErrUnit * Cardinality(S)
           tooFar == \E e \in S : EntryDist2(e) > (150 * pixels_per_meter) * (150 * pixels_per_meter)
       IN /\ cur.verdict = "valid" <=> (S # {} /\ ~errorHigh /\ ~tooFar)
          /\ S = {} => cur.verdict = "no_measurements"
          /\ (S # {} /\ errorHigh) => cur.verdict = "high_error"
          /\ (S # {} /\ ~errorHigh /\ tooFar) => cur.verdict = "excessive_distance"

\* a call whose samples exceed both the error threshold and the distance
\* ceiling: the verdict names the error
C24_Witness ==
    /\ loc_pc = "validated"
    /\ cur.mode = "validate"
    /\ EmitterEntries # {}
    /\ TotalError(EmitterEntries) > 25 * ErrUnit * Cardinality(EmitterEntries)
    /\ \E e \in EmitterEntries :
          EntryDist2(e) > (150 * pixels_per_meter) * (150 * pixels_per_meter)
    /\ cur.verdict = "high_error"

\* C30: the solver's sanity check and validate_position agree on distance:
\* every position estimate_ap_position returns for an emitter's measurements
\* satisfies validate_position's max-distance ceiling when validated against
\* the same samples with the same scale, and is never reported invalid for
\* excessive distance.
C30_SolverAgreesWithValidator ==
    (loc_pc = "validated" /\ cur.mode = "direct") =>
       /\ \A e \in EmitterEntries :
             EntryDist2(e) <= (150 * pixels_per_meter) * (150 * pixels_per_meter)
       /\ cur.verdict # "excessive_distance"

\* C25: each retained measurement's centroid weight is 10^(signal/20) floored
\* at 0.1, so that of any two measurements the one with the stronger signal
\* receives the larger weight; the seed list is the signal-weighted centroid,
\* the plain centroid and 3 jittered candidates around the weighted centroid,
\* 5 seeds in that order.
C25_StrongerSignalLargerWeight ==
    (loc_pc \in {"optimize", "validate"} /\ cur.measurements # <<>>) =>
       LET ms == cur.measurements
           w == Weights(ms)
       IN /\ \A i, j \in 1..Len(ms) : ms[i].rssi > ms[j].rssi => w[i] > w[j]
          /\ Len(cur.initial_positions) = 5
          /\ cur.initial_positions[1] = WeightedCentroid(ms)
          /\ cur.initial_positions[2] = SimpleCentroid(ms)

\* the pixel array after the first k samples were drawn
SplatPrefix(k) ==
    SplatAll([px \in Pixels(h_width, h_height) |-> <<0, 0, 0, 0>>],
             SubSeq(h_samples, 1, k), h_width, h_height, h_range[1], h_range[2], h_metric)

\* the alphas the samples compute for a pixel: one per disc that covers it
ComputedAlphas(px) ==
    {SplatAlpha(px, h_samples[i], SplatRadius(h_width, h_height)) :
        i \in {j \in 1..Len(h_samples) :
                 InDisc(px, h_samples[j], SplatRadius(h_width, h_height))}}

\* the samples in another order
Reordered(f) == [i \in 1..Len(h_samples) |-> h_samples[f[i]]]

Orders == {f \in [1..Len(h_samples) -> 1..Len(h_samples)] :
              \A i, j \in 1..Len(h_samples) : f[i] = f[j] => i = j}

\* C26: in the disc-splatting fallback a pixel is overwritten by a sample's
\* disc only when the alpha that sample computes for it is strictly greater
\* than the pixel's current alpha; a pixel's alpha never decreases; after all
\* samples each pixel's alpha is the maximum of the alphas computed for it
\* (0 if no disc covers it), whatever the order of the samples.
C26_SplatAlphaIsMaximum ==
    (h_pc = "done" /\ h_image.kind = "splat") =>
       LET radius == SplatRadius(h_width, h_height)
           MaxAlpha(px) == CHOOSE a \in ComputedAlphas(px) \cup {0} :
                              \A b \in ComputedAlphas(px) \cup {0} : a >= b
       IN /\ \A k \in 1..Len(h_samples) :
                LET before == SplatPrefix(k - 1)
                    after == SplatPrefix(k)
                IN \A px \in Pixels(h_width, h_height) :
                      LET covered == InDisc(px, h_samples[k], radius)
                          alpha == SplatAlpha(px, h_samples[k], radius)
                      IN /\ after[px][4] >= before[px][4]
                         /\ after[px] # before[px] => (covered /\ alpha > before[px][4])
                         /\ (covered /\ alpha > before[px][4]) => after[px][4] = alpha
          /\ \A px \in Pixels(h_width, h_height) : h_image.data[px][4] = MaxAlpha(px)
          /\ \A f \in Orders :
                LET other == SplatAll([px \in Pixels(h_width, h_height) |-> <<0, 0, 0, 0>>],
                                      Reordered(f), h_width, h_height,
                                      h_range[1], h_range[2], h_metric)
                IN \A px \in Pixels(h_width, h_height) : other[px][4] = h_image.data[px][4]

\* a splatted raster with a pixel covered by the discs of two samples that
\* compute different alphas for it, the sample with the larger alpha drawn first
C26_Witness ==
    /\ h_pc = "done"
    /\ h_image.kind = "splat"
    /\ \E px \in Pixels(h_width, h_height) :
          \E i, j \in 1..Len(h_samples) :
             /\ i < j
             /\ InDisc(px, h_samples[i], SplatRadius(h_width, h_height))
             /\ InDisc(px, h_samples[j], SplatRadius(h_width, h_height))
             /\ SplatAlpha(px, h_samples[i], SplatRadius(h_width, h_height))
                   > SplatAlpha(px, h_samples[j], SplatRadius(h_width, h_height))
             /\ h_image.data[px][4] = SplatAlpha(px, h_samples[i], SplatRadius(h_width, h_height))

\* C27: with >= 3 usable samples the raster generate returns has exactly the
\* requested width and height on every path through the fallback chain
\* (griddata, radial-basis, disc-splatting), and the intermediate
\* interpolation grid never exceeds 200 x 200 cells.
C27_RasterSizeAndGridBound ==
    Len(h_samples) >= 3 =>
       /\ h_pc = "done" =>
             /\ h_image.kind \in {"resized", "splat"}
             /\ h_image.width = h_width
             /\ h_image.height = h_height
             /\ h_image.kind = "splat" => DOMAIN h_image.data = Pixels(h_width, h_height)
       /\ h_grid # <<>> =>
             /\ DOMAIN h_grid = Cells(h_width, h_height)
             /\ \A c \in DOMAIN h_grid : c[1] \in 0..199 /\ c[2] \in 0..199

\* a raster returned at 597 x 8 from a grid of 200 columns, where half the
\* width would be 298
C27_Witness ==
    /\ h_pc = "done"
    /\ Len(h_samples) >= 3
    /\ h_image.kind = "resized"
    /\ h_width \div 2 > 200
    /\ h_image.width = h_width /\ h_image.height = h_height
    /\ \E c \in DOMAIN h_grid : c[2] = 199
    /\ \A c \in DOMAIN h_grid : c[2] <= 199

\* C28: for an emitter with 3, 4 or 5 measurements the outlier filter of
\* estimate_ap_position never drops a measurement, whatever the signal values;
\* the retained set equals the input set.
C28_SmallSetsNeverFiltered ==
    (cur.mode \in {"pass", "direct", "list"} /\ loc_pc \in {"optimize", "validate", "returned"}
       /\ Len(cur.given) \in 3..5) =>
       cur.measurements = cur.given

\* C29: every estimate emitted by estimate_all_aps has a strictly positive
\* confidence of at least 0.15, and of at least 0.2125 when it has exactly 3
\* measurements; an emitted estimate never carries confidence 0.
C29_EmittedConfidenceFloor ==
    \A b \in BSSIDs :
       estimated_aps[b].present =>
          /\ estimated_aps[b].confidence > 0
          /\ 100 * estimated_aps[b].confidence >= 15 * ConfUnit
          /\ estimated_aps[b].measurement_count = 3 =>
                10000 * estimated_aps[b].confidence >= 2125 * ConfUnit

\* an estimate emitted for exactly 3 measurements whose signals vary by more
\* than 25 dB, so that the consistency factor contributes nothing
C29_Witness ==
    \E b \in BSSIDs :
       /\ estimated_aps[b].present
       /\ estimated_aps[b].measurement_count = 3
       /\ ConsistencyFactor(MeasurementsOf(survey_points, b)) = 0
       /\ 10000 * estimated_aps[b].confidence < 3000 * ConfUnit
====
